---- MODULE Spec2Model ----
EXTENDS Integers, Sequences, FiniteSets, TLC

(***************************************************************************)
(* benchflow analysis engine: the result caches (LRUCache, QueryCache),    *)
(* the comparator (BasicComparator, CachedComparator).                     *)
(* Each component is driven by its own specification; the variable         *)
(* `component` records which one a behaviour exercises, and the variables  *)
(* of the other components keep their constructed values.                  *)
(***************************************************************************)

\* ------------------------------------------------------------ bounds
\* Largest capacity handed to NewLRUCache / NewQueryCache.
MaxCap == 2
\* Largest number of Set calls between two empty starts of a cache.
MaxOps == 4
\* Last instant of the clock read by time.Now().
MaxTime == 2

\* Cache keys: one more than the largest capacity, so that a full cache meets a new key.
Keys == {"k1", "k2", "k3"}
\* Opaque cached values (*ComparisonResult, interface{}).
Values == {"r1", "r2"}
NilValue == "nil"

VARIABLES
    component,  \* which component this behaviour drives
    lru,        \* LRUCache: [maxSize, items, order]
    lruLast,    \* the last LRUCache call and what it returned
    hist,       \* keys passed to Set since the cache was last empty-started
    age,        \* keys present, in the order they became present
    written,    \* the value last stored under each key still held since the last Clear
    qc,         \* QueryCache: [maxSize, items, order]
    now,        \* the clock time.Now() reads
    qcLast,     \* the QueryCache Get or Set that was the last call, and what it did
    stored,     \* per key, the latest SetWithTTL and whether the key was dropped since
    bc,         \* BasicComparator: [ConfidenceLevel, RegressionThreshold], in percent
    baseline,   \* the baseline suite of the last Compare call
    current,    \* the current suite of the last Compare call
    returned,   \* the ComparisonResult the last Compare call returned
    calls,      \* number of Compare calls made
    mu,         \* the shared cache's sync.RWMutex
    pc,         \* where each goroutine is in the method it runs
    op,         \* the call each goroutine is making
    ret,        \* what each goroutine's call is about to return
    completed,  \* the <<key, value>> pairs of the Set calls that returned
    series,     \* the history handed to the trend analyzer
    perDay,     \* how many units of CreatedAt make a day, for that history
    analysis,   \* the last trend analyzer call and what it returned
    batch,      \* ExecuteBatch: the number of configs and the ExecutionConfig
    jobs,       \* the jobs channel: [buf, closed]
    resultsCh,  \* the results channel: [buf, closed]
    ctx,        \* whether the caller's context and batchCtx are cancelled
    workers,    \* each worker goroutine: [pc, config, result]
    sender,     \* the goroutine that sends the jobs: [pc, i]
    waiter,     \* the goroutine that waits for the workers and closes results
    collector,  \* the loop of ExecuteBatch over results: [allResults, firstError]
    batchRet    \* what ExecuteBatch returned

lruVars == <<lru, lruLast, hist, age, written>>
qcVars == <<qc, now, qcLast, stored>>
cmpVars == <<bc, baseline, current, returned, calls>>
concVars == <<mu, pc, op, ret, completed>>
anVars == <<series, perDay, analysis>>
\* The components added after the caches and the comparator.
exVars == <<batch, jobs, resultsCh, ctx, workers, sender, waiter, collector, batchRet>>
restVars == <<anVars, exVars>>
vars == <<component, lruVars, qcVars, cmpVars, concVars, restVars>>
\* What the calls on one component leave alone.
notLRU == <<component, qcVars, cmpVars, concVars, restVars>>
notQC == <<component, lruVars, cmpVars, concVars, restVars>>

\* Capacities handed to the caches' constructors.
Capacities == 0..MaxCap

\* ------------------------------------------------------------ helpers
Range(s) == {s[i] : i \in 1..Len(s)}
NoDup(s) == \A i, j \in 1..Len(s) : i # j => s[i] # s[j]
\* delete(m, k) on a Go map
MapDelete(m, k) == [x \in (DOMAIN m) \ {k} |-> m[x]]
\* m[k] = v on a Go map
MapPut(m, k, v) == [x \in (DOMAIN m) \cup {k} |-> IF x = k THEN v ELSE m[x]]
EmptyMap == [x \in {} |-> NilValue]

\* ------------------------------------------------------------ LRUCache
NewLRUCache(maxSize) == [maxSize |-> maxSize, items |-> EmptyMap, order |-> <<>>]

LRUSize(c) == Cardinality(DOMAIN c.items)
LRUMaxSize(c) == c.maxSize

\* Get as a cache that promotes the key it reads (least-recently-used order).
LRUGetPromoting(c, key) ==
    IF key \notin DOMAIN c.items
    THEN [cache |-> c, result |-> NilValue, found |-> FALSE]
    ELSE [cache |-> [c EXCEPT !.order = Append(SelectSeq(c.order, LAMBDA x : x # key), key)],
          result |-> c.items[key].result, found |-> TRUE]

\* Get: the cache it leaves and the pair it returns.
LRUGet(c, key) ==
    IF key \notin DOMAIN c.items
    THEN [cache |-> c, result |-> NilValue, found |-> FALSE]
    ELSE [cache |-> c, result |-> c.items[key].result, found |-> TRUE]

LRUEvictOldest(c) ==
    IF Len(c.order) = 0
    THEN c
    ELSE [c EXCEPT !.items = MapDelete(c.items, c.order[1]),
                   !.order = Tail(c.order)]

\* Set that moves a key it overwrites to the back of the eviction order.
LRUSetReordering(c, key, result) ==
    IF key \in DOMAIN c.items
    THEN [c EXCEPT !.items = MapPut(c.items, key, [result |-> result, key |-> key]),
                   !.order = Append(SelectSeq(c.order, LAMBDA x : x # key), key)]
    ELSE LET e == IF LRUSize(c) >= c.maxSize THEN LRUEvictOldest(c) ELSE c
         IN [e EXCEPT !.items = MapPut(e.items, key, [result |-> result, key |-> key]),
                      !.order = Append(e.order, key)]

\* Set that leaves the value of a key it already holds.
LRUSetKeepingFirst(c, key, result) ==
    IF key \in DOMAIN c.items
    THEN c
    ELSE LET e == IF LRUSize(c) >= c.maxSize THEN LRUEvictOldest(c) ELSE c
         IN [e EXCEPT !.items = MapPut(e.items, key, [result |-> result, key |-> key]),
                      !.order = Append(e.order, key)]

LRUSet(c, key, result) ==
    IF key \in DOMAIN c.items
    THEN [c EXCEPT !.items = MapPut(c.items, key, [result |-> result, key |-> key])]
    ELSE LET e == IF LRUSize(c) >= c.maxSize THEN LRUEvictOldest(c) ELSE c
         IN [e EXCEPT !.items = MapPut(e.items, key, [result |-> result, key |-> key]),
                      !.order = Append(e.order, key)]

\* Clear that replaces the map and keeps the eviction order.
LRUClearKeepingOrder(c) == [c EXCEPT !.items = EmptyMap]

LRUClear(c) == [c EXCEPT !.items = EmptyMap, !.order = <<>>]

\* The keys present after a step, oldest first, told from presence alone.
AgeAfter(a, before, after, key) ==
    IF key \in before
    THEN SelectSeq(a, LAMBDA x : x \in after)
    ELSE Append(SelectSeq(a, LAMBDA x : x \in after /\ x # key), key)

\* The value last stored under each key, after a store of `key`; a key that
\* left the cache holds none.
WrittenAfterSet(w, before, after, key, result) ==
    [x \in Keys |->
        IF x = key THEN result
        ELSE IF x \in before /\ x \notin after THEN NilValue
        ELSE w[x]]

NoCall == [op |-> "none", key |-> NilValue, result |-> NilValue, found |-> FALSE]

InitLRUVars ==
    /\ lruLast = NoCall
    /\ hist = <<>>
    /\ age = <<>>
    /\ written = [x \in Keys |-> NilValue]

DoLRUSet(key, result) ==
    /\ component = "lru"
    /\ Len(hist) < MaxOps
    /\ lru' = LRUSet(lru, key, result)
    /\ lruLast' = [op |-> "Set", key |-> key, result |-> result, found |-> FALSE]
    /\ hist' = Append(hist, key)
    /\ age' = AgeAfter(age, DOMAIN lru.items, DOMAIN lru'.items, key)
    /\ written' = WrittenAfterSet(written, DOMAIN lru.items, DOMAIN lru'.items, key, result)
    /\ UNCHANGED notLRU

DoLRUGet(key) ==
    /\ component = "lru"
    /\ LET g == LRUGet(lru, key)
       IN /\ lru' = g.cache
          /\ lruLast' = [op |-> "Get", key |-> key, result |-> g.result, found |-> g.found]
    /\ UNCHANGED <<hist, age, written, notLRU>>

DoLRUClear ==
    /\ component = "lru"
    /\ lru' = LRUClear(lru)
    /\ lruLast' = [op |-> "Clear", key |-> NilValue, result |-> NilValue, found |-> FALSE,
                   dropped |-> LRUSize(lru)]
    /\ hist' = <<>>
    /\ age' = <<>>
    /\ written' = [x \in Keys |-> NilValue]
    /\ UNCHANGED notLRU

LRUNext ==
    \/ \E key \in Keys, result \in Values : DoLRUSet(key, result)
    \/ \E key \in Keys : DoLRUGet(key)
    \/ DoLRUClear

\* ------------------------------------------------------------ QueryCache
\* Set's default time-to-live, in minutes (the clock's unit).
DefaultTTL == 1
\* Times-to-live handed to SetWithTTL: none, the default, a longer one.
TTLs == {0, DefaultTTL, 2 * DefaultTTL}

NewQueryCache(maxSize) == [maxSize |-> maxSize, items |-> EmptyMap, order |-> <<>>]

QCSize(c) == Cardinality(DOMAIN c.items)
QCMaxSize(c) == c.maxSize

\* Get that already misses at the instant of expiry.
QCGetExpiringEarly(c, key, t) ==
    IF key \notin DOMAIN c.items
    THEN [result |-> NilValue, found |-> FALSE]
    ELSE IF t >= c.items[key].expiresAt
         THEN [result |-> NilValue, found |-> FALSE]
         ELSE [result |-> c.items[key].data, found |-> TRUE]

\* Get at clock reading t: time.Now().After(item.expiresAt) is a miss.
QCGet(c, key, t) ==
    IF key \notin DOMAIN c.items
    THEN [result |-> NilValue, found |-> FALSE]
    ELSE IF t > c.items[key].expiresAt
         THEN [result |-> NilValue, found |-> FALSE]
         ELSE [result |-> c.items[key].data, found |-> TRUE]

QCEvictOldest(c) ==
    IF Len(c.order) = 0
    THEN c
    ELSE [c EXCEPT !.items = MapDelete(c.items, c.order[1]),
                   !.order = Tail(c.order)]

QCItem(key, data, ttl, t) == [data |-> data, expiresAt |-> t + ttl, key |-> key]

\* SetWithTTL that moves a key it overwrites to the back of the eviction order.
QCSetWithTTLReordering(c, key, data, ttl, t) ==
    IF key \in DOMAIN c.items
    THEN [c EXCEPT !.items = MapPut(c.items, key, QCItem(key, data, ttl, t)),
                   !.order = Append(SelectSeq(c.order, LAMBDA x : x # key), key)]
    ELSE LET e == IF QCSize(c) >= c.maxSize THEN QCEvictOldest(c) ELSE c
         IN [e EXCEPT !.items = MapPut(e.items, key, QCItem(key, data, ttl, t)),
                      !.order = Append(e.order, key)]

\* SetWithTTL at clock reading t.
QCSetWithTTL(c, key, data, ttl, t) ==
    IF key \in DOMAIN c.items
    THEN [c EXCEPT !.items = MapPut(c.items, key, QCItem(key, data, ttl, t))]
    ELSE LET e == IF QCSize(c) >= c.maxSize THEN QCEvictOldest(c) ELSE c
         IN [e EXCEPT !.items = MapPut(e.items, key, QCItem(key, data, ttl, t)),
                      !.order = Append(e.order, key)]

QCSet(c, key, data, t) == QCSetWithTTL(c, key, data, DefaultTTL, t)

\* What is known of a SetWithTTL call at clock reading t: its key, whether the
\* key was present and expired, and whether an entry left the cache that was
\* not yet expired.
QCSetCall(c, after, key, t) ==
    [op |-> "Set", key |-> key,
     revived |-> key \in DOMAIN c.items /\ t > c.items[key].expiresAt,
     evictedLive |-> \E x \in DOMAIN c.items \ DOMAIN after.items :
                        t <= c.items[x].expiresAt]

QCClear(c) == [c EXCEPT !.items = EmptyMap, !.order = <<>>]

\* What is known of a key's latest store: when it runs out (clock reading plus
\* time-to-live), whether the time-to-live was positive, the data, and whether
\* the key left the cache since (evicted or cleared).
NeverStored == [set |-> FALSE, deadline |-> 0, positive |-> FALSE, data |-> NilValue, dropped |-> FALSE]

\* A key that left the cache (evicted or cleared) after its latest store.
Dropped == [set |-> TRUE, deadline |-> 0, positive |-> FALSE, data |-> NilValue, dropped |-> TRUE]

\* The record of the latest store of each key, after a store of `key`.
StoredAfterSet(s, before, after, key, data, ttl, t) ==
    [x \in Keys |->
        IF x = key
        THEN [set |-> TRUE, deadline |-> t + ttl, positive |-> (ttl > 0), data |-> data, dropped |-> FALSE]
        ELSE IF x \in before /\ x \notin after
             THEN Dropped
             ELSE s[x]]

InitQCVars ==
    /\ now = 0
    /\ qcLast = NoCall
    /\ stored = [x \in Keys |-> NeverStored]

DoQCSetWithTTL(key, data, ttl) ==
    /\ component = "qc"
    /\ qc' = QCSetWithTTL(qc, key, data, ttl, now)
    /\ qcLast' = QCSetCall(qc, qc', key, now)
    /\ stored' = StoredAfterSet(stored, DOMAIN qc.items, DOMAIN qc'.items, key, data, ttl, now)
    /\ UNCHANGED <<now, notQC>>

DoQCSet(key, data) ==
    /\ component = "qc"
    /\ qc' = QCSet(qc, key, data, now)
    /\ qcLast' = QCSetCall(qc, qc', key, now)
    /\ stored' = StoredAfterSet(stored, DOMAIN qc.items, DOMAIN qc'.items, key, data, DefaultTTL, now)
    /\ UNCHANGED <<now, notQC>>

DoQCGet(key) ==
    /\ component = "qc"
    /\ LET g == QCGet(qc, key, now)
       IN qcLast' = [op |-> "Get", key |-> key, result |-> g.result, found |-> g.found]
    /\ UNCHANGED <<qc, now, stored, notQC>>

DoQCClear ==
    /\ component = "qc"
    /\ qc' = QCClear(qc)
    /\ qcLast' = NoCall
    /\ stored' = [x \in Keys |-> IF stored[x].set THEN Dropped ELSE stored[x]]
    /\ UNCHANGED <<now, notQC>>

\* Time passes between two calls.
Tick ==
    /\ component = "qc"
    /\ now < MaxTime
    /\ now' = now + 1
    /\ qcLast' = NoCall
    /\ UNCHANGED <<qc, stored, notQC>>

QCNext ==
    \/ \E key \in Keys, data \in Values, ttl \in TTLs : DoQCSetWithTTL(key, data, ttl)
    \/ \E key \in Keys, data \in Values : DoQCSet(key, data)
    \/ \E key \in Keys : DoQCGet(key)
    \/ DoQCClear
    \/ Tick

\* ------------------------------------------------------------ comparator
\* NewBasicComparator's defaults, in percent: 0.95 and 1.05.
DefaultConfidence == 95
DefaultThreshold == 105

Abs(x) == IF x < 0 THEN -x ELSE x

RECURSIVE GCD(_, _)
GCD(a, b) == IF b = 0 THEN a ELSE GCD(b, a % b)

\* The float64 quotient n / d (d # 0), kept exact as a fraction in lowest terms.
Rat(n, d) ==
    LET g == GCD(Abs(n), Abs(d))
        s == IF d < 0 THEN -1 ELSE 1
    IN [num |-> (s * n) \div g, den |-> (s * d) \div g]

RatZero == [num |-> 0, den |-> 1]
RatLess(a, b) == a.num * b.den < b.num * a.den
RatAdd(a, b) == Rat(a.num * b.den + b.num * a.den, a.den * b.den)

RECURSIVE SumSeq(_)
SumSeq(s) == IF s = <<>> THEN 0 ELSE Head(s) + SumSeq(Tail(s))

RECURSIVE SumSq(_)
SumSq(s) == IF s = <<>> THEN 0 ELSE Head(s) * Head(s) + SumSq(Tail(s))

\* A float64 that is a number: its sign and its square (exact).
FloatNum(sign, sq) == [nan |-> FALSE, sign |-> sign, sq |-> sq]
FloatZero == FloatNum(0, RatZero)
\* The float64 NaN.
FloatNaN == [nan |-> TRUE, sign |-> 0, sq |-> RatZero]

Sign(x) == IF x > 0 THEN 1 ELSE IF x < 0 THEN -1 ELSE 0

\* len(data) * sum of squared deviations from the mean; calculateStdDev
\* returns 0 for a slice of at most one element.
SqDev(data) ==
    IF Len(data) <= 1 THEN 0
    ELSE Len(data) * SumSq(data) - SumSeq(data) * SumSeq(data)

\* CohensDEffect: (mean2 - mean1) / pooledStdDev, with
\* pooledVariance = ((n1-1)*var1 + (n2-1)*var2) / (n1+n2-2); the float64
\* division 0/0 is NaN, Sqrt(NaN) is NaN, and NaN == 0 is false.
CohensDEffect(group1, group2) ==
    IF Len(group1) = 0 \/ Len(group2) = 0 THEN FloatZero
    ELSE LET n1 == Len(group1)
             n2 == Len(group2)
             \* (n1-1)*variance1 + (n2-1)*variance2, times n1*n2
             num == SqDev(group1) * n2 + SqDev(group2) * n1
             den == n1 + n2 - 2
             diff == SumSeq(group2) * n1 - SumSeq(group1) * n2
         IN IF den = 0 THEN FloatNaN
            ELSE IF num = 0 THEN FloatZero
            ELSE FloatNum(Sign(diff), Rat(diff * diff * den, n1 * n2 * num))

\* timeRatio > threshold with a zero baseline taken as no regression.
TimeRatioExceedsUnlessZero(b, c, threshold) ==
    IF b.Time > 0 THEN c.Time * 100 > b.Time * threshold
    ELSE IF b.Time < 0 THEN c.Time * 100 < b.Time * threshold
    ELSE FALSE

\* timeRatio > threshold, for timeRatio = float64(current.Time) / float64(baseline.Time):
\* x/0 is +Inf for x > 0, -Inf for x < 0 and NaN for x = 0, and NaN > t is false.
TimeRatioExceeds(b, c, threshold) ==
    IF b.Time > 0 THEN c.Time * 100 > b.Time * threshold
    ELSE IF b.Time < 0 THEN c.Time * 100 < b.Time * threshold
    ELSE c.Time > 0

\* Four times the standard deviation GetSignificance works with: StdDev, or
\* 5% of Time when StdDev is 0 (times are multiples of 5 ns here).
StdDev4(r) == IF r.StdDev = 0 THEN r.Time \div 5 ELSE 4 * r.StdDev

\* The square of the |tStat| above which pValue = 2*(1 - normalCDF(|tStat|))
\* is below alpha = 1 - confidenceLevel: 1.96 squared, for 0.95.
CriticalSq(confidenceLevel) == [num |-> 2401, den |-> 625]

\* GetSignificance: (isSignificant, pValue). pValue is a decreasing function
\* of tStat squared and is carried as that square; `one` marks the early
\* return of pValue 1.0.
GetSignificance(b, c, confidenceLevel) ==
    IF b.Time = 0 \/ c.Time = 0
    THEN [significant |-> FALSE, pValue |-> [one |-> TRUE, tsq |-> RatZero]]
    ELSE LET s4 == StdDev4(b) * StdDev4(b) + StdDev4(c) * StdDev4(c)
             d == c.Time - b.Time
             \* tStat = d / Sqrt(s4 / 32); or d / (0.01 * b.Time) if that is 0
             tsq == IF s4 = 0 THEN Rat(10000 * d * d, b.Time * b.Time)
                    ELSE Rat(32 * d * d, s4)
         IN [significant |-> RatLess(CriticalSq(confidenceLevel), tsq),
             pValue |-> [one |-> FALSE, tsq |-> tsq]]

\* compareResults with the delta taken relative to the current time.
compareResultsDeltaOverCurrent(cfg, b, c) ==
    LET sig == GetSignificance(b, c, cfg.ConfidenceLevel)
    IN [Name |-> c.Name,
        Language |-> c.Language,
        Baseline |-> b,
        Current |-> c,
        TimeDelta |-> IF c.Time = 0 THEN RatZero ELSE Rat((c.Time - b.Time) * 100, c.Time),
        IsRegression |-> TimeRatioExceeds(b, c, cfg.RegressionThreshold),
        IsSignificant |-> sig.significant,
        ConfidenceLevel |-> cfg.ConfidenceLevel,
        TTestPValue |-> sig.pValue,
        EffectSize |-> CohensDEffect(<<b.Time>>, <<c.Time>>),
        RegressionThreshold |-> cfg.RegressionThreshold]

compareResults(cfg, b, c) ==
    LET sig == GetSignificance(b, c, cfg.ConfidenceLevel)
    IN [Name |-> c.Name,
        Language |-> c.Language,
        Baseline |-> b,
        Current |-> c,
        TimeDelta |-> IF b.Time = 0 THEN RatZero ELSE Rat((c.Time - b.Time) * 100, b.Time),
        IsRegression |-> TimeRatioExceeds(b, c, cfg.RegressionThreshold),
        IsSignificant |-> sig.significant,
        ConfidenceLevel |-> cfg.ConfidenceLevel,
        TTestPValue |-> sig.pValue,
        EffectSize |-> CohensDEffect(<<b.Time>>, <<c.Time>>),
        RegressionThreshold |-> cfg.RegressionThreshold]

RECURSIVE RatSum(_)
RatSum(s) == IF s = <<>> THEN RatZero ELSE RatAdd(Head(s), RatSum(Tail(s)))

RatMin(s) == CHOOSE x \in Range(s) : \A y \in Range(s) : ~RatLess(y, x)
RatMax(s) == CHOOSE x \in Range(s) : \A y \in Range(s) : ~RatLess(x, y)

calculateSummary(res) ==
    LET n == Len(res.Benchmarks)
        deltas == [i \in 1..n |-> res.Benchmarks[i].TimeDelta]
        sum == RatSum(deltas)
    IN [TotalComparisons |-> n,
        Regressions |-> Len(res.Regressions),
        Improvements |-> Len(res.Improvements),
        AverageDelta |-> IF n = 0 THEN RatZero ELSE Rat(sum.num, sum.den * n),
        MaxDelta |-> IF n = 0 THEN RatZero ELSE RatMax(deltas),
        MinDelta |-> IF n = 0 THEN RatZero ELSE RatMin(deltas),
        SignificantChanges |-> Cardinality({i \in 1..n : res.Benchmarks[i].IsSignificant})]

\* A *BenchmarkSuite: nil, or its Results.
NilSuite == [isNil |-> TRUE, Results |-> <<>>]
Suite(results) == [isNil |-> FALSE, Results |-> results]

\* baselineMap: the last result of each name.
BaselineMap(results) ==
    [n \in {results[i].Name : i \in 1..Len(results)} |->
        results[CHOOSE i \in 1..Len(results) :
                    /\ results[i].Name = n
                    /\ \A j \in (i+1)..Len(results) : results[j].Name # n]]

\* baselineMap[currentResult.Name]
BaselineLookup(results, c) ==
    LET m == BaselineMap(results)
    IN IF c.Name \in DOMAIN m THEN [found |-> TRUE, result |-> m[c.Name]]
       ELSE [found |-> FALSE, result |-> c]

EmptyResult(cfg) ==
    [Benchmarks |-> <<>>,
     Regressions |-> <<>>,
     Improvements |-> <<>>,
     Statistics |-> [ConfidenceLevel |-> cfg.ConfidenceLevel,
                     SignificanceLevel |-> 100 - cfg.ConfidenceLevel,
                     RegressionThreshold |-> cfg.RegressionThreshold]]

\* The loop over current.Results, from index i on.
RECURSIVE CompareLoop(_, _, _, _, _)
CompareLoop(cfg, base, cur, i, acc) ==
    IF i > Len(cur) THEN acc
    ELSE LET c == cur[i]
             look == BaselineLookup(base, c)
         IN IF ~look.found THEN CompareLoop(cfg, base, cur, i + 1, acc)
            ELSE IF look.result.Language # c.Language THEN CompareLoop(cfg, base, cur, i + 1, acc)
            ELSE LET cmp == compareResults(cfg, look.result, c)
                 IN CompareLoop(cfg, base, cur, i + 1,
                        [acc EXCEPT
                            !.Benchmarks = Append(@, cmp),
                            !.Regressions = IF cmp.IsRegression THEN Append(@, cmp.Name) ELSE @,
                            !.Improvements = IF ~cmp.IsRegression /\ RatLess(cmp.TimeDelta, RatZero)
                                             THEN Append(@, cmp.Name) ELSE @])

WithSummary(res, summary) ==
    [Benchmarks |-> res.Benchmarks,
     Summary |-> summary,
     Regressions |-> res.Regressions,
     Improvements |-> res.Improvements,
     Statistics |-> res.Statistics]

ZeroSummary ==
    [TotalComparisons |-> 0, Regressions |-> 0, Improvements |-> 0,
     AverageDelta |-> RatZero, MaxDelta |-> RatZero, MinDelta |-> RatZero,
     SignificantChanges |-> 0]

\* BasicComparator.Compare
Compare(cfg, b, c) ==
    IF b.isNil \/ c.isNil \/ Len(b.Results) = 0 \/ Len(c.Results) = 0
    THEN WithSummary(EmptyResult(cfg), ZeroSummary)
    ELSE LET res == CompareLoop(cfg, b.Results, c.Results, 1, EmptyResult(cfg))
         IN WithSummary(res, calculateSummary(res))

\* Inputs of the comparator.
Names == {"sort", "search"}
Languages == {"go", "python"}
Times == {-110, -100, 0, 95, 100, 105, 110}
Thresholds == {DefaultThreshold, 100}
\* Largest number of results in the two suites of one Compare call together.
MaxResults == 3

\* Results of every time in one language, and of one time in the other.
CmpResults ==
    [Name : Names, Language : {"go"}, Time : Times, StdDev : {0}]
        \cup [Name : Names, Language : Languages, Time : {100}, StdDev : {0}]
SuitesOfLen(k) ==
    {Suite(rs) : rs \in [1..k -> CmpResults]} \cup (IF k = 0 THEN {NilSuite} ELSE {})

NoResult == WithSummary(EmptyResult([ConfidenceLevel |-> 0, RegressionThreshold |-> 0]), ZeroSummary)

\* No goroutines: the component is driven by one caller.
SingleCaller ==
    /\ mu = [writer |-> 0, readers |-> {}]
    /\ pc = <<>>
    /\ op = <<>>
    /\ ret = <<>>
    /\ completed = {}

\* The trend analyzer has not been called.
NoAnalysis == [op |-> "none"]
NoAnalyzer ==
    /\ series = <<>>
    /\ perDay = 1
    /\ analysis = NoAnalysis

\* make(chan T, n)
MakeChan == [buf |-> <<>>, closed |-> FALSE]
NoError == "nil"
NoReturn == [returned |-> FALSE, results |-> <<>>, err |-> NoError]

\* ExecuteBatch has not been called.
NoExecutor ==
    /\ batch = [n |-> 0, Parallel |-> 0, Retry |-> 0, FailFast |-> FALSE]
    /\ jobs = MakeChan
    /\ resultsCh = MakeChan
    /\ ctx = [cancelled |-> FALSE, batchCancelled |-> FALSE]
    /\ workers = <<>>
    /\ sender = [pc |-> "done", i |-> 1]
    /\ waiter = "done"
    /\ collector = [allResults |-> <<>>, firstError |-> NoError]
    /\ batchRet = NoReturn

\* The components added after the caches and the comparator are not driven.
RestIdle == NoAnalyzer /\ NoExecutor

InitCmpVars ==
    /\ bc = [ConfidenceLevel |-> DefaultConfidence, RegressionThreshold |-> DefaultThreshold]
    /\ baseline = NilSuite
    /\ current = NilSuite
    /\ returned = NoResult
    /\ calls = 0

InitCompare ==
    /\ component = "compare"
    /\ SingleCaller
    /\ RestIdle
    /\ \E thr \in Thresholds :
        bc = [ConfidenceLevel |-> DefaultConfidence, RegressionThreshold |-> thr]
    /\ \E n \in 0..MaxResults : \E k \in 0..n :
        /\ baseline \in SuitesOfLen(k)
        /\ current \in SuitesOfLen(n - k)
    /\ returned = NoResult
    /\ calls = 0
    /\ lru = NewLRUCache(0)
    /\ InitLRUVars
    /\ qc = NewQueryCache(0)
    /\ InitQCVars

DoCompare ==
    /\ component = "compare"
    /\ calls = 0
    /\ returned' = Compare(bc, baseline, current)
    /\ calls' = 1
    /\ UNCHANGED <<component, bc, baseline, current, lruVars, qcVars, concVars, restVars>>

CompareNext == DoCompare

\* ------------------------------------------------------------ CachedComparator
\* NewCachedComparator's cache size when the given one is not positive.
DefaultCacheSize == 100
\* Largest number of Compare calls on one CachedComparator.
MaxCalls == 2

NewCachedComparator(cacheSize) ==
    NewLRUCache(IF cacheSize <= 0 THEN DefaultCacheSize ELSE cacheSize)

\* fmt.Fprintf(h, "%s:%s:%d", r.Name, r.Language, r.Time)
FormatResult(r) == r.Name \o ":" \o r.Language \o ":" \o ToString(r.Time)

RECURSIVE FormatResults(_)
FormatResults(results) ==
    IF results = <<>> THEN ""
    ELSE FormatResult(Head(results)) \o FormatResults(Tail(results))

\* cacheKey: the MD5 digest of what is written for the two suites. The digest
\* is taken to be free of collisions: it is the text it digests.
cacheKey(b, c) ==
    (IF b.isNil THEN "" ELSE FormatResults(b.Results)) \o
    (IF c.isNil THEN "" ELSE FormatResults(c.Results))

\* Inputs of the cached comparator: one benchmark, two times, with and without
\* a measured standard deviation.
CachedResults == [Name : {"sort"}, Language : {"go"}, Time : {100, 200}, StdDev : {0, 100}]
PlainResults == {r \in CachedResults : r.StdDev = 0}
CachedSuites ==
    {NilSuite, Suite(<<>>)}
    \cup {Suite(<<r>>) : r \in CachedResults}
    \cup {Suite(<<p[1], p[2]>>) : p \in {q \in PlainResults \X PlainResults : q[1] # q[2]}}
CachedInputs ==
    {in \in CachedSuites \X CachedSuites : Len(in[1].Results) + Len(in[2].Results) <= 3}

InitCached ==
    /\ component = "cached"
    /\ \E cacheSize \in Capacities : lru = NewCachedComparator(cacheSize)
    /\ InitLRUVars
    /\ InitCmpVars
    /\ qc = NewQueryCache(0)
    /\ InitQCVars
    /\ SingleCaller
    /\ RestIdle

\* CachedComparator.Compare
DoCachedCompare(b, c) ==
    /\ component = "cached"
    /\ calls < MaxCalls
    /\ LET key == cacheKey(b, c)
           g == LRUGet(lru, key)
       IN IF g.found
          THEN /\ returned' = g.result
               /\ lru' = g.cache
               /\ lruLast' = [op |-> "Get", key |-> key, result |-> g.result, found |-> TRUE]
          ELSE LET r == Compare(bc, b, c)
               IN /\ returned' = r
                  /\ lru' = LRUSet(g.cache, key, r)
                  /\ lruLast' = [op |-> "Set", key |-> key, result |-> r, found |-> FALSE]
    /\ baseline' = b
    /\ current' = c
    /\ calls' = calls + 1
    /\ UNCHANGED <<component, bc, hist, age, written, qcVars, concVars, restVars>>

\* CachedComparator.ClearCache
DoClearCache ==
    /\ component = "cached"
    /\ lru' = LRUClear(lru)
    /\ lruLast' = [op |-> "Clear", key |-> NilValue, result |-> NilValue, found |-> FALSE,
                   dropped |-> LRUSize(lru)]
    /\ UNCHANGED <<component, hist, age, written, cmpVars, qcVars, concVars, restVars>>

CachedNext ==
    \/ \E in \in CachedInputs : DoCachedCompare(in[1], in[2])
    \/ DoClearCache

\* ------------------------------------------------------------ concurrent callers of one LRUCache
\* Number of goroutines calling the shared cache.
NumProcs == 2
Procs == 1..NumProcs
ConcKeys == {"k1", "k2"}
\* Capacities of the shared cache: none, room for one key, room for all keys.
ConcCapacities == {0, 1, 2}
\* time.Now() as the goroutines read it: one TTL period.
ConcTTLs == {0, DefaultTTL}

\* sync.RWMutex: the goroutine holding the write lock (0: none) and those
\* holding the read lock.
NewRWMutex == [writer |-> 0, readers |-> {}]

\* RLock that does not wait for a writer.
CanRLockDespiteWriter(m) == TRUE

\* RLock returns once no writer holds the lock.
CanRLock(m) == m.writer = 0
\* Lock returns once nobody holds the lock.
CanLock(m) == m.writer = 0 /\ m.readers = {}

NoOp == [name |-> "none", key |-> NilValue, result |-> NilValue]
NoRet == [result |-> NilValue, found |-> FALSE, size |-> 0]

InitConcVars ==
    /\ mu = NewRWMutex
    /\ pc = [p \in Procs |-> "idle"]
    /\ op = [p \in Procs |-> NoOp]
    /\ ret = [p \in Procs |-> NoRet]
    /\ completed = {}

\* Get, line 111: lru.mu.RLock()
GetRLock(p, key) ==
    /\ pc[p] = "idle"
    /\ CanRLock(mu)
    /\ mu' = [mu EXCEPT !.readers = @ \cup {p}]
    /\ op' = [op EXCEPT ![p] = [name |-> "Get", key |-> key, result |-> NilValue]]
    /\ pc' = [pc EXCEPT ![p] = "get_read"]
    /\ UNCHANGED <<lru, ret, completed>>

\* Get, lines 114-119: the lookup and the values to return
GetRead(p) ==
    /\ pc[p] = "get_read"
    /\ LET g == LRUGet(lru, op[p].key)
       IN /\ ret' = [ret EXCEPT ![p] = [result |-> g.result, found |-> g.found, size |-> 0]]
          /\ lru' = g.cache
    /\ pc' = [pc EXCEPT ![p] = "get_runlock"]
    /\ UNCHANGED <<mu, op, completed>>

\* Get, line 112: the deferred RUnlock, and the return
GetRUnlock(p) ==
    /\ pc[p] = "get_runlock"
    /\ mu' = [mu EXCEPT !.readers = @ \ {p}]
    /\ pc' = [pc EXCEPT ![p] = "idle"]
    /\ op' = [op EXCEPT ![p] = NoOp]
    /\ ret' = [ret EXCEPT ![p] = NoRet]
    /\ UNCHANGED <<lru, completed>>

\* Size, line 165: lru.mu.RLock()
SizeRLock(p) ==
    /\ pc[p] = "idle"
    /\ CanRLock(mu)
    /\ mu' = [mu EXCEPT !.readers = @ \cup {p}]
    /\ op' = [op EXCEPT ![p] = [name |-> "Size", key |-> NilValue, result |-> NilValue]]
    /\ pc' = [pc EXCEPT ![p] = "size_read"]
    /\ UNCHANGED <<lru, ret, completed>>

\* Size, line 167: len(lru.items)
SizeRead(p) ==
    /\ pc[p] = "size_read"
    /\ ret' = [ret EXCEPT ![p] = [result |-> NilValue, found |-> FALSE, size |-> LRUSize(lru)]]
    /\ pc' = [pc EXCEPT ![p] = "size_runlock"]
    /\ UNCHANGED <<lru, mu, op, completed>>

\* Size, line 166: the deferred RUnlock, and the return
SizeRUnlock(p) ==
    /\ pc[p] = "size_runlock"
    /\ mu' = [mu EXCEPT !.readers = @ \ {p}]
    /\ pc' = [pc EXCEPT ![p] = "idle"]
    /\ op' = [op EXCEPT ![p] = NoOp]
    /\ ret' = [ret EXCEPT ![p] = NoRet]
    /\ UNCHANGED <<lru, completed>>

\* Set, line 124: lru.mu.Lock()
SetLock(p, key, value) ==
    /\ pc[p] = "idle"
    /\ CanLock(mu)
    /\ mu' = [mu EXCEPT !.writer = p]
    /\ op' = [op EXCEPT ![p] = [name |-> "Set", key |-> key, result |-> value]]
    /\ pc' = [pc EXCEPT ![p] = "set_check"]
    /\ UNCHANGED <<lru, ret, completed>>

\* Set, lines 128 and 134: which branch is taken
SetCheck(p) ==
    /\ pc[p] = "set_check"
    /\ pc' = [pc EXCEPT ![p] =
                IF op[p].key \in DOMAIN lru.items THEN "set_update"
                ELSE IF LRUSize(lru) >= lru.maxSize
                     THEN (IF Len(lru.order) = 0 THEN "set_insert" ELSE "evict_delete")
                     ELSE "set_insert"]
    /\ UNCHANGED <<lru, mu, op, ret, completed>>

\* Set, line 129: the value of a present key is replaced
SetUpdate(p) ==
    /\ pc[p] = "set_update"
    /\ lru' = [lru EXCEPT !.items = MapPut(lru.items, op[p].key,
                                [result |-> op[p].result, key |-> op[p].key])]
    /\ pc' = [pc EXCEPT ![p] = "set_unlock"]
    /\ UNCHANGED <<mu, op, ret, completed>>

\* evictOldest, lines 149-150: delete(lru.items, lru.order[0])
EvictDelete(p) ==
    /\ pc[p] = "evict_delete"
    /\ lru' = [lru EXCEPT !.items = MapDelete(lru.items, lru.order[1])]
    /\ pc' = [pc EXCEPT ![p] = "evict_slice"]
    /\ UNCHANGED <<mu, op, ret, completed>>

\* evictOldest, line 151: lru.order = lru.order[1:]
EvictSlice(p) ==
    /\ pc[p] = "evict_slice"
    /\ lru' = [lru EXCEPT !.order = Tail(lru.order)]
    /\ pc' = [pc EXCEPT ![p] = "set_insert"]
    /\ UNCHANGED <<mu, op, ret, completed>>

\* Set, line 139: the new item is stored
SetInsert(p) ==
    /\ pc[p] = "set_insert"
    /\ lru' = [lru EXCEPT !.items = MapPut(lru.items, op[p].key,
                                [result |-> op[p].result, key |-> op[p].key])]
    /\ pc' = [pc EXCEPT ![p] = "set_append"]
    /\ UNCHANGED <<mu, op, ret, completed>>

\* Set, line 140: lru.order = append(lru.order, key)
SetAppend(p) ==
    /\ pc[p] = "set_append"
    /\ lru' = [lru EXCEPT !.order = Append(lru.order, op[p].key)]
    /\ pc' = [pc EXCEPT ![p] = "set_unlock"]
    /\ UNCHANGED <<mu, op, ret, completed>>

\* Set, line 125: the deferred Unlock, and the return
SetUnlock(p) ==
    /\ pc[p] = "set_unlock"
    /\ mu' = [mu EXCEPT !.writer = 0]
    /\ completed' = completed \cup {<<op[p].key, op[p].result>>}
    /\ pc' = [pc EXCEPT ![p] = "idle"]
    /\ op' = [op EXCEPT ![p] = NoOp]
    /\ UNCHANGED <<lru, ret>>

\* Clear, line 156: lru.mu.Lock()
ClearLock(p) ==
    /\ pc[p] = "idle"
    /\ CanLock(mu)
    /\ mu' = [mu EXCEPT !.writer = p]
    /\ op' = [op EXCEPT ![p] = [name |-> "Clear", key |-> NilValue, result |-> NilValue]]
    /\ pc' = [pc EXCEPT ![p] = "clear_items"]
    /\ UNCHANGED <<lru, ret, completed>>

\* Clear, line 159: lru.items = make(...)
ClearItems(p) ==
    /\ pc[p] = "clear_items"
    /\ lru' = [lru EXCEPT !.items = EmptyMap]
    /\ pc' = [pc EXCEPT ![p] = "clear_order"]
    /\ UNCHANGED <<mu, op, ret, completed>>

\* Clear, line 160: lru.order = make(...)
ClearOrder(p) ==
    /\ pc[p] = "clear_order"
    /\ lru' = [lru EXCEPT !.order = <<>>]
    /\ pc' = [pc EXCEPT ![p] = "clear_unlock"]
    /\ UNCHANGED <<mu, op, ret, completed>>

\* Clear, line 157: the deferred Unlock, and the return
ClearUnlock(p) ==
    /\ pc[p] = "clear_unlock"
    /\ mu' = [mu EXCEPT !.writer = 0]
    /\ pc' = [pc EXCEPT ![p] = "idle"]
    /\ op' = [op EXCEPT ![p] = NoOp]
    /\ UNCHANGED <<lru, ret, completed>>

ConcStep(p) ==
    \/ \E key \in ConcKeys : GetRLock(p, key)
    \/ GetRead(p)
    \/ GetRUnlock(p)
    \/ SizeRLock(p)
    \/ SizeRead(p)
    \/ SizeRUnlock(p)
    \/ \E key \in ConcKeys, value \in Values : SetLock(p, key, value)
    \/ SetCheck(p)
    \/ SetUpdate(p)
    \/ EvictDelete(p)
    \/ EvictSlice(p)
    \/ SetInsert(p)
    \/ SetAppend(p)
    \/ SetUnlock(p)
    \/ ClearLock(p)
    \/ ClearItems(p)
    \/ ClearOrder(p)
    \/ ClearUnlock(p)

ConcLRUNext ==
    /\ component = "concurrent"
    /\ \E p \in Procs : ConcStep(p)
    /\ UNCHANGED <<component, lruLast, hist, age, written, qcVars, cmpVars, restVars>>

InitConcLRU ==
    /\ component = "concurrent"
    /\ \E m \in ConcCapacities : lru = NewLRUCache(m)
    /\ InitLRUVars
    /\ InitConcVars
    /\ RestIdle
    /\ qc = NewQueryCache(0)
    /\ InitQCVars
    /\ InitCmpVars

\* ------------------------------------------------------------ concurrent callers of one QueryCache
\* QueryCache.Get, line 243: qc.mu.RLock()
QCGetRLock(p, key) ==
    /\ pc[p] = "idle"
    /\ CanRLock(mu)
    /\ mu' = [mu EXCEPT !.readers = @ \cup {p}]
    /\ op' = [op EXCEPT ![p] = [name |-> "Get", key |-> key, result |-> NilValue]]
    /\ pc' = [pc EXCEPT ![p] = "get_read"]
    /\ UNCHANGED <<qc, ret, completed>>

\* QueryCache.Get, lines 246-256: the lookup, the expiry test and the values to return
QCGetRead(p) ==
    /\ pc[p] = "get_read"
    /\ LET g == QCGet(qc, op[p].key, now)
       IN ret' = [ret EXCEPT ![p] = [result |-> g.result, found |-> g.found, size |-> 0]]
    /\ pc' = [pc EXCEPT ![p] = "get_runlock"]
    /\ UNCHANGED <<qc, mu, op, completed>>

\* QueryCache.Get, line 244: the deferred RUnlock, and the return
QCGetRUnlock(p) ==
    /\ pc[p] = "get_runlock"
    /\ mu' = [mu EXCEPT !.readers = @ \ {p}]
    /\ pc' = [pc EXCEPT ![p] = "idle"]
    /\ op' = [op EXCEPT ![p] = NoOp]
    /\ ret' = [ret EXCEPT ![p] = NoRet]
    /\ UNCHANGED <<qc, completed>>

\* QueryCache.Size, line 315: qc.mu.RLock()
QCSizeRLock(p) ==
    /\ pc[p] = "idle"
    /\ CanRLock(mu)
    /\ mu' = [mu EXCEPT !.readers = @ \cup {p}]
    /\ op' = [op EXCEPT ![p] = [name |-> "Size", key |-> NilValue, result |-> NilValue]]
    /\ pc' = [pc EXCEPT ![p] = "size_read"]
    /\ UNCHANGED <<qc, ret, completed>>

\* QueryCache.Size, line 317: len(qc.items)
QCSizeRead(p) ==
    /\ pc[p] = "size_read"
    /\ ret' = [ret EXCEPT ![p] = [result |-> NilValue, found |-> FALSE, size |-> QCSize(qc)]]
    /\ pc' = [pc EXCEPT ![p] = "size_runlock"]
    /\ UNCHANGED <<qc, mu, op, completed>>

\* QueryCache.Size, line 316: the deferred RUnlock, and the return
QCSizeRUnlock(p) ==
    /\ pc[p] = "size_runlock"
    /\ mu' = [mu EXCEPT !.readers = @ \ {p}]
    /\ pc' = [pc EXCEPT ![p] = "idle"]
    /\ op' = [op EXCEPT ![p] = NoOp]
    /\ ret' = [ret EXCEPT ![p] = NoRet]
    /\ UNCHANGED <<qc, completed>>

\* SetWithTTL, line 266: qc.mu.Lock()
QCSetLock(p, key, data, ttl) ==
    /\ pc[p] = "idle"
    /\ CanLock(mu)
    /\ mu' = [mu EXCEPT !.writer = p]
    /\ op' = [op EXCEPT ![p] = [name |-> "SetWithTTL", key |-> key, result |-> data, ttl |-> ttl]]
    /\ pc' = [pc EXCEPT ![p] = "set_check"]
    /\ UNCHANGED <<qc, ret, completed>>

\* SetWithTTL, lines 270 and 280: which branch is taken
QCSetCheck(p) ==
    /\ pc[p] = "set_check"
    /\ pc' = [pc EXCEPT ![p] =
                IF op[p].key \in DOMAIN qc.items THEN "set_update"
                ELSE IF QCSize(qc) >= qc.maxSize
                     THEN (IF Len(qc.order) = 0 THEN "set_insert" ELSE "evict_delete")
                     ELSE "set_insert"]
    /\ UNCHANGED <<qc, mu, op, ret, completed>>

\* SetWithTTL, lines 271-275: the item of a present key is replaced
QCSetUpdate(p) ==
    /\ pc[p] = "set_update"
    /\ qc' = [qc EXCEPT !.items = MapPut(qc.items, op[p].key,
                                QCItem(op[p].key, op[p].result, op[p].ttl, now))]
    /\ pc' = [pc EXCEPT ![p] = "set_unlock"]
    /\ UNCHANGED <<mu, op, ret, completed>>

\* QueryCache.evictOldest, lines 299-300: delete(qc.items, qc.order[0])
QCEvictDelete(p) ==
    /\ pc[p] = "evict_delete"
    /\ qc' = [qc EXCEPT !.items = MapDelete(qc.items, qc.order[1])]
    /\ pc' = [pc EXCEPT ![p] = "evict_slice"]
    /\ UNCHANGED <<mu, op, ret, completed>>

\* QueryCache.evictOldest, line 301: qc.order = qc.order[1:]
QCEvictSlice(p) ==
    /\ pc[p] = "evict_slice"
    /\ qc' = [qc EXCEPT !.order = Tail(qc.order)]
    /\ pc' = [pc EXCEPT ![p] = "set_insert"]
    /\ UNCHANGED <<mu, op, ret, completed>>

\* SetWithTTL, lines 285-289: the new item is stored
QCSetInsert(p) ==
    /\ pc[p] = "set_insert"
    /\ qc' = [qc EXCEPT !.items = MapPut(qc.items, op[p].key,
                                QCItem(op[p].key, op[p].result, op[p].ttl, now))]
    /\ pc' = [pc EXCEPT ![p] = "set_append"]
    /\ UNCHANGED <<mu, op, ret, completed>>

\* SetWithTTL, line 290: qc.order = append(qc.order, key)
QCSetAppend(p) ==
    /\ pc[p] = "set_append"
    /\ qc' = [qc EXCEPT !.order = Append(qc.order, op[p].key)]
    /\ pc' = [pc EXCEPT ![p] = "set_unlock"]
    /\ UNCHANGED <<mu, op, ret, completed>>

\* SetWithTTL, line 267: the deferred Unlock, and the return
QCSetUnlock(p) ==
    /\ pc[p] = "set_unlock"
    /\ mu' = [mu EXCEPT !.writer = 0]
    /\ completed' = completed \cup {<<op[p].key, op[p].result>>}
    /\ pc' = [pc EXCEPT ![p] = "idle"]
    /\ op' = [op EXCEPT ![p] = NoOp]
    /\ UNCHANGED <<qc, ret>>

\* QueryCache.Clear, line 306: qc.mu.Lock()
QCClearLock(p) ==
    /\ pc[p] = "idle"
    /\ CanLock(mu)
    /\ mu' = [mu EXCEPT !.writer = p]
    /\ op' = [op EXCEPT ![p] = [name |-> "Clear", key |-> NilValue, result |-> NilValue]]
    /\ pc' = [pc EXCEPT ![p] = "clear_items"]
    /\ UNCHANGED <<qc, ret, completed>>

\* QueryCache.Clear, line 309: qc.items = make(...)
QCClearItems(p) ==
    /\ pc[p] = "clear_items"
    /\ qc' = [qc EXCEPT !.items = EmptyMap]
    /\ pc' = [pc EXCEPT ![p] = "clear_order"]
    /\ UNCHANGED <<mu, op, ret, completed>>

\* QueryCache.Clear, line 310: qc.order = make(...)
QCClearOrder(p) ==
    /\ pc[p] = "clear_order"
    /\ qc' = [qc EXCEPT !.order = <<>>]
    /\ pc' = [pc EXCEPT ![p] = "clear_unlock"]
    /\ UNCHANGED <<mu, op, ret, completed>>

\* QueryCache.Clear, line 307: the deferred Unlock, and the return
QCClearUnlock(p) ==
    /\ pc[p] = "clear_unlock"
    /\ mu' = [mu EXCEPT !.writer = 0]
    /\ pc' = [pc EXCEPT ![p] = "idle"]
    /\ op' = [op EXCEPT ![p] = NoOp]
    /\ UNCHANGED <<qc, ret, completed>>

\* The clock that time.Now() reads moves on.
ConcTick ==
    /\ now < DefaultTTL
    /\ now' = now + 1
    /\ UNCHANGED <<qc, concVars>>

ConcQCStep(p) ==
    \/ \E key \in ConcKeys : QCGetRLock(p, key)
    \/ QCGetRead(p)
    \/ QCGetRUnlock(p)
    \/ QCSizeRLock(p)
    \/ QCSizeRead(p)
    \/ QCSizeRUnlock(p)
    \/ \E key \in ConcKeys, data \in Values, ttl \in ConcTTLs : QCSetLock(p, key, data, ttl)
    \/ QCSetCheck(p)
    \/ QCSetUpdate(p)
    \/ QCEvictDelete(p)
    \/ QCEvictSlice(p)
    \/ QCSetInsert(p)
    \/ QCSetAppend(p)
    \/ QCSetUnlock(p)
    \/ QCClearLock(p)
    \/ QCClearItems(p)
    \/ QCClearOrder(p)
    \/ QCClearUnlock(p)

ConcQCNext ==
    /\ component = "concurrent_qc"
    /\ \/ (\E p \in Procs : ConcQCStep(p)) /\ UNCHANGED now
       \/ ConcTick
    /\ UNCHANGED <<component, lruVars, qcLast, stored, cmpVars, restVars>>

InitConcQC ==
    /\ component = "concurrent_qc"
    /\ \E m \in ConcCapacities : qc = NewQueryCache(m)
    /\ InitQCVars
    /\ InitConcVars
    /\ RestIdle
    /\ lru = NewLRUCache(0)
    /\ InitLRUVars
    /\ InitCmpVars

InitConc == InitConcLRU \/ InitConcQC
ConcNext == ConcLRUNext \/ ConcQCNext

\* ------------------------------------------------------------ trend analyzer
\* NewBasicTrendAnalyzer's forecast confidence, in percent: 0.95.
ForecastConfidence == 95

RatSub(a, b) == Rat(a.num * b.den - b.num * a.den, a.den * b.den)
RatMul(a, b) == Rat(a.num * b.num, a.den * b.den)
RatOfInt(i) == [num |-> i, den |-> 1]
RatLeq(a, b) == a.num * b.den <= b.num * a.den

\* CreatedAt is counted in units of which perDay make a day: whole days, or
\* ticks of 0.432 s, of which 200000 make a day.
TicksPerDay == 200000
Resolutions == {1, TicksPerDay}

\* math.Abs(denominator) < 1e-10, for the denominator n*sumX2 - sumX*sumX in
\* days squared: d (an integer, in units squared) over upd squared.
NoVarianceInX(d, upd) ==
    IF upd >= 100000
    THEN Abs(d) < (upd \div 100000) * (upd \div 100000)
    ELSE d = 0

\* sort.Slice by CreatedAt.Before on a copy; on these short slices it is an
\* insertion sort, which keeps records of equal CreatedAt in their order.
\* F(e), with e computed once.
With(e, F(_)) == CHOOSE r \in {F(v) : v \in {e}} : TRUE

RECURSIVE SortByCreatedAt(_)
SortByCreatedAt(history) ==
    IF Len(history) = 0 THEN <<>>
    ELSE With(SortByCreatedAt(SubSeq(history, 1, Len(history) - 1)),
              LAMBDA front :
                LET r == history[Len(history)]
                    k == Cardinality({i \in 1..Len(front) : front[i].CreatedAt <= r.CreatedAt})
                IN SubSeq(front, 1, k) \o <<r>> \o SubSeq(front, k + 1, Len(front)))

RECURSIVE SumOver(_, _)
\* The sum of f[i] over i in 1..n.
SumOver(f, n) == IF n = 0 THEN 0 ELSE f[n] + SumOver(f, n - 1)

RECURSIVE RatSumOver(_, _)
RatSumOver(f, n) == IF n = 0 THEN RatZero ELSE RatAdd(f[n], RatSumOver(f, n - 1))

TrendError(kind) == [err |-> kind, trend |-> NilValue]

\* The sums of the regression loop: x in units since start, of which a day has
\* upd; y the times.
RegressionSums(sorted) ==
    LET n == Len(sorted)
        x == [i \in 1..n |-> sorted[i].CreatedAt - sorted[1].CreatedAt]
        y == [i \in 1..n |-> sorted[i].CurrentTimeNs]
    IN [x |-> x, y |-> y,
        sumX |-> SumOver(x, n),
        sumY |-> SumOver(y, n),
        sumXY |-> SumOver([i \in 1..n |-> x[i] * y[i]], n),
        sumX2 |-> SumOver([i \in 1..n |-> x[i] * x[i]], n)]

\* slope (per unit of x) and intercept of the fitted line.
RegressionLine(s, n) ==
    With(Rat(n * s.sumXY - s.sumX * s.sumY, n * s.sumX2 - s.sumX * s.sumX),
         LAMBDA slopePerUnit :
            [slopePerUnit |-> slopePerUnit,
             intercept |-> Rat(s.sumY * slopePerUnit.den - slopePerUnit.num * s.sumX,
                               slopePerUnit.den * n)])

\* rSquared = 1 - ssRes/ssTot if ssTot > 0, else 1; clamped to [0, 1].
RSquared(s, line, n) ==
    LET meanY == Rat(s.sumY, n)
        residual(i) == RatSub(RatOfInt(s.y[i]),
                              RatAdd(line.intercept, RatMul(line.slopePerUnit, RatOfInt(s.x[i]))))
        squares == [ssRes |-> RatSumOver([i \in 1..n |-> With(residual(i),
                                            LAMBDA d : RatMul(d, d))], n),
                    ssTot |-> RatSumOver([i \in 1..n |-> With(RatSub(RatOfInt(s.y[i]), meanY),
                                            LAMBDA d : RatMul(d, d))], n)]
    IN With(squares,
            LAMBDA ss :
              With(IF RatLess(RatZero, ss.ssTot)
                   THEN RatSub(RatOfInt(1),
                               Rat(ss.ssRes.num * ss.ssTot.den, ss.ssRes.den * ss.ssTot.num))
                   ELSE RatOfInt(1),
                   LAMBDA raw :
                     IF RatLess(raw, RatZero) THEN RatZero
                     ELSE IF RatLess(RatOfInt(1), raw) THEN RatOfInt(1) ELSE raw))

\* CalculateTrend from the sorted records on.
TrendOfSorted(sorted, s, upd) ==
    LET n == Len(sorted)
        denominator == n * s.sumX2 - s.sumX * s.sumX
    IN IF NoVarianceInX(denominator, upd) THEN TrendError("no variance in x")
       ELSE
       With(RegressionLine(s, n),
            LAMBDA line :
              LET slope == Rat(line.slopePerUnit.num * upd, line.slopePerUnit.den)
                  direction == IF RatLess(RatOfInt(1), slope) THEN "degrading"
                               ELSE IF RatLess(slope, RatOfInt(-1)) THEN "improving"
                               ELSE "stable"
                  startTime == sorted[1].CreatedAt
                  endTime == sorted[n].CreatedAt
                  days == (endTime - startTime) \div upd
                  startValue == sorted[1].CurrentTimeNs
                  endValue == sorted[n].CurrentTimeNs
              IN [err |-> "none",
                  trend |-> [BenchmarkName |-> sorted[1].BenchmarkName,
                             Language |-> sorted[1].Language,
                             Direction |-> direction,
                             Slope |-> slope,
                             RSquared |-> RSquared(s, line, n),
                             ChangePercent |-> IF startValue > 0
                                               THEN Rat((endValue - startValue) * 100, startValue)
                                               ELSE RatZero,
                             PeriodDays |-> IF days = 0 THEN 1 ELSE days,
                             DataPoints |-> n,
                             StartTime |-> startTime,
                             EndTime |-> endTime,
                             StartValue |-> startValue,
                             EndValue |-> endValue]])

\* CalculateTrend(history, minDataPoints) for a history whose CreatedAt counts
\* units of which upd make a day.
CalculateTrend(history, minDataPoints, upd) ==
    IF Len(history) < minDataPoints THEN TrendError("insufficient data points")
    ELSE IF Len(history) = 0 THEN TrendError("no historical data")
    ELSE With(SortByCreatedAt(history),
              LAMBDA sorted : With(RegressionSums(sorted),
                                   LAMBDA s : TrendOfSorted(sorted, s, upd)))

\* n*(n-1) times the sample variance of the values: n*sum(v^2) - (sum v)^2.
ScaledVariance(values) == Len(values) * SumSq(values) - SumSeq(values) * SumSeq(values)

\* The anomaly's severity from zScore squared.
Severity(zsq) ==
    IF RatLess(RatOfInt(9), zsq) THEN "critical"
    ELSE IF RatLess(Rat(25, 4), zsq) THEN "high"
    ELSE IF RatLess(Rat(9, 4), zsq) THEN "medium"
    ELSE "low"

RECURSIVE AnomalyLoop(_, _, _, _)
\* The detection loop from record i on; Message, a rendering of ZScore, is left out.
AnomalyLoop(sorted, zScoreThreshold, i, anomalies) ==
    IF i > Len(sorted) THEN anomalies
    ELSE LET n == Len(sorted)
             values == [j \in 1..n |-> sorted[j].CurrentTimeNs]
             comp == sorted[i]
             \* zScore = (value - mean) / stdDev, as a sign and a square
             dev == n * comp.CurrentTimeNs - SumSeq(values)
             zsq == Rat(dev * dev * (n - 1), n * ScaledVariance(values))
             exceeds == IF zScoreThreshold < 0 THEN TRUE
                        ELSE RatLess(RatOfInt(zScoreThreshold * zScoreThreshold), zsq)
             jump == i > 1 /\ comp.CurrentTimeNs * 100 > sorted[i - 1].CurrentTimeNs * 105
         IN IF exceeds
            THEN AnomalyLoop(sorted, zScoreThreshold, i + 1,
                    Append(anomalies,
                           [BenchmarkName |-> comp.BenchmarkName,
                            Language |-> comp.Language,
                            Timestamp |-> comp.CreatedAt,
                            Value |-> comp.CurrentTimeNs,
                            ZScore |-> FloatNum(Sign(dev), zsq),
                            Severity |-> Severity(zsq),
                            IsRegression |-> comp.IsRegression \/ jump]))
            ELSE AnomalyLoop(sorted, zScoreThreshold, i + 1, anomalies)

\* DetectAnomalies without the zero-variance return and with a comparison that
\* NaN passes: every record of a constant history is reported.
DetectAnomaliesNaNExceeds(history, zScoreThreshold) ==
    IF Len(history) < 2 THEN <<>>
    ELSE LET sorted == SortByCreatedAt(history)
             values == [j \in 1..Len(sorted) |-> sorted[j].CurrentTimeNs]
         IN IF ScaledVariance(values) = 0
            THEN [i \in 1..Len(sorted) |->
                    [BenchmarkName |-> sorted[i].BenchmarkName,
                     Language |-> sorted[i].Language,
                     Timestamp |-> sorted[i].CreatedAt,
                     Value |-> sorted[i].CurrentTimeNs,
                     ZScore |-> FloatNaN,
                     Severity |-> "low",
                     IsRegression |-> sorted[i].IsRegression]]
            ELSE AnomalyLoop(sorted, zScoreThreshold, 1, <<>>)

\* DetectAnomalies: nil is the empty list.
DetectAnomalies(history, zScoreThreshold) ==
    IF Len(history) < 2 THEN <<>>
    ELSE With(SortByCreatedAt(history),
              LAMBDA sorted :
                LET values == [j \in 1..Len(sorted) |-> sorted[j].CurrentTimeNs]
                IN IF ScaledVariance(values) = 0 THEN <<>>
                   ELSE AnomalyLoop(sorted, zScoreThreshold, 1, <<>>))

\* A float64 of the form rat + k * Sqrt(sq), kept exact.
Surd(rat, k, sq) == [rat |-> rat, k |-> k, sq |-> sq]

\* a*a >= q for a >= 0, without squaring an a that is beyond q anyway.
SquareAtLeast(a, q) ==
    IF RatLeq(RatOfInt(1), a) /\ RatLeq(q, a) THEN TRUE
    ELSE RatLeq(q, RatMul(a, a))

\* rat + k * Sqrt(sq) >= 0
SurdNonNeg(s) ==
    LET a == s.rat
        q == RatMul(RatOfInt(s.k * s.k), s.sq)
    IN IF s.k = 0 \/ s.sq.num = 0 THEN RatLeq(RatZero, a)
       ELSE IF s.k > 0
            THEN RatLeq(RatZero, a) \/ ~SquareAtLeast(RatSub(RatZero, a), q)
                                     \/ RatMul(a, a) = q
            ELSE RatLeq(RatZero, a) /\ SquareAtLeast(a, q)

\* s <= t, for two floats over the same square root
SurdLeq(s, t) == SurdNonNeg(Surd(RatSub(t.rat, s.rat), t.k - s.k, t.sq))

\* calculateForecastStdErr squared: the mean squared deviation from the mean.
ForecastStdErrSq(comps) ==
    IF Len(comps) < 2 THEN RatZero
    ELSE LET values == [j \in 1..Len(comps) |-> comps[j].CurrentTimeNs]
         IN Rat(ScaledVariance(values), Len(comps) * (Len(comps) - 1))

\* marginOfError squared: (1.96 * stdErr * Sqrt(1 + 1/n)) squared.
MarginSq(comps) ==
    RatMul(Rat(2401, 625),
           RatMul(ForecastStdErrSq(comps), Rat(Len(comps) + 1, Len(comps))))

\* The lower bound left as computed: predictedTime - marginOfError.
LowerBoundUnclamped(predictedTime, marginSq) == Surd(predictedTime, -1, marginSq)

\* LowerBound: predictedTime - marginOfError, or 0 when that is negative.
LowerBound(predictedTime, marginSq) ==
    IF SurdNonNeg(Surd(predictedTime, -1, marginSq))
    THEN Surd(predictedTime, -1, marginSq)
    ELSE Surd(RatZero, 0, marginSq)

\* The forecasts of one benchmark's records, for the periods 1..periods.
GroupForecasts(comps, periods, upd) ==
    IF Len(comps) < 2 THEN <<>>
    ELSE With(<<CalculateTrend(comps, 2, upd), MarginSq(comps)>>,
              LAMBDA tm :
                LET t == tm[1]
                    marginSq == tm[2]
                IN IF t.err # "none" THEN <<>>
                   ELSE [p \in 1..periods |->
                           With(RatAdd(RatOfInt(t.trend.EndValue),
                                       RatMul(t.trend.Slope, RatOfInt(p))),
                                LAMBDA predictedTime :
                                  [BenchmarkName |-> t.trend.BenchmarkName,
                                   Language |-> t.trend.Language,
                                   Period |-> p,
                                   PredictedTime |-> predictedTime,
                                   LowerBound |-> LowerBound(predictedTime, marginSq),
                                   UpperBound |-> Surd(predictedTime, 1, marginSq),
                                   Confidence |-> ForecastConfidence])])

GroupKey(comp) == comp.BenchmarkName \o ":" \o comp.Language

RECURSIVE ForecastGroups(_, _, _, _)
\* The loop over the map of groups, taken in the order `keys`.
ForecastGroups(sorted, periods, upd, keys) ==
    IF keys = <<>> THEN <<>>
    ELSE With(SelectSeq(sorted, LAMBDA c : GroupKey(c) = Head(keys)),
              LAMBDA comps : GroupForecasts(comps, periods, upd))
            \o ForecastGroups(sorted, periods, upd, Tail(keys))

\* The orders in which `range` may hand out the keys of a map.
KeyOrders(keys) ==
    {o \in [1..Cardinality(keys) -> keys] : \A i, j \in 1..Cardinality(keys) : i # j => o[i] # o[j]}

\* ForecastPerformance, with the groups visited in the order `keys`; nil is
\* the empty list.
ForecastPerformance(history, periods, upd, keys) ==
    IF Len(history) < 2 \/ periods <= 0 THEN <<>>
    ELSE With(SortByCreatedAt(history),
              LAMBDA sorted : ForecastGroups(sorted, periods, upd, keys))

\* Inputs of the trend analyzer.
TrendValues == {10, 30}
Stamps == {0, 1, 2}
\* Longest history handed to the analyzer.
MaxSeries == 3
\* Largest number of periods to forecast.
MaxPeriods == 2
\* Records of the benchmark under study, and of one other benchmark that
\* shares the history.
HistoryRecords ==
    [BenchmarkName : {"sort"}, Language : {"go"}, CurrentTimeNs : TrendValues,
     CreatedAt : Stamps, IsRegression : {FALSE}]
    \cup [BenchmarkName : {"search"}, Language : {"go"}, CurrentTimeNs : {10},
          CreatedAt : Stamps, IsRegression : {FALSE}]
\* Histories in which both benchmarks have two records each.
MixedHistories ==
    {a \o b : a \in [1..2 -> {r \in HistoryRecords : r.BenchmarkName = "sort"}],
              b \in [1..2 -> {r \in HistoryRecords : r.BenchmarkName = "search"}]}
Histories == UNION {[1..k -> HistoryRecords] : k \in 0..MaxSeries} \cup MixedHistories
MinPoints == 0..(MaxSeries + 1)
ZScoreThresholds == {1, 2}
Periods == (-1)..MaxPeriods

InitAnalyzer ==
    /\ component = "analyzer"
    /\ series \in Histories
    /\ perDay \in Resolutions
    /\ analysis = NoAnalysis
    /\ lru = NewLRUCache(0)
    /\ InitLRUVars
    /\ qc = NewQueryCache(0)
    /\ InitQCVars
    /\ InitCmpVars
    /\ SingleCaller
    /\ NoExecutor

notAnalysis == <<component, series, perDay, lruVars, qcVars, cmpVars, concVars, exVars>>

DoCalculateTrend(minDataPoints) ==
    /\ component = "analyzer"
    /\ analysis = NoAnalysis
    /\ LET r == CalculateTrend(series, minDataPoints, perDay)
       IN analysis' = [op |-> "CalculateTrend", minDataPoints |-> minDataPoints,
                       err |-> r.err, trend |-> r.trend]
    /\ UNCHANGED notAnalysis

DoDetectAnomalies(zScoreThreshold) ==
    /\ component = "analyzer"
    /\ analysis = NoAnalysis
    /\ analysis' = [op |-> "DetectAnomalies", zScoreThreshold |-> zScoreThreshold,
                    anomalies |-> DetectAnomalies(series, zScoreThreshold)]
    /\ UNCHANGED notAnalysis

DoForecastPerformance(periods) ==
    /\ component = "analyzer"
    /\ analysis = NoAnalysis
    /\ \E keys \in KeyOrders({GroupKey(series[i]) : i \in 1..Len(series)}) :
          analysis' = [op |-> "ForecastPerformance", periods |-> periods,
                       forecasts |-> ForecastPerformance(series, periods, perDay, keys)]
    /\ UNCHANGED notAnalysis

\* The analyzer keeps nothing between calls: a behaviour makes one call.
AnalyzerNext ==
    \/ \E minDataPoints \in MinPoints : DoCalculateTrend(minDataPoints)
    \/ \E zScoreThreshold \in ZScoreThresholds : DoDetectAnomalies(zScoreThreshold)
    \/ \E periods \in Periods : DoForecastPerformance(periods)

\* ------------------------------------------------------------ executor
\* Largest number of configs in a batch, of execConfig.Parallel and of
\* execConfig.Retry.
MaxConfigs == 2
MaxParallel == 2
MaxRetry == 1
ParallelValues == (-1)..MaxParallel
Cancelled == "context canceled"
Failed == "execution failed"

\* numWorkers: Parallel, or 1 if that is not positive.
NumWorkersAllowingNone(parallel) == IF parallel <= 0 THEN 0 ELSE parallel

NumWorkers(parallel) == IF parallel <= 0 THEN 1 ELSE parallel

NoConfig == 0
\* An ExecutionResult, with the progress events the handler was sent for it
\* (Events is what the handler saw, not a field of the struct).
NoExecution == [Config |-> NoConfig, Error |-> NoError, Attempts |-> 0, Events |-> <<>>]

\* How an attempt can end: Execute returns nil; it returns an error; it returns
\* an error and ctx.Err() is set by then; it returns an error and ctx is done
\* during the backoff that follows.
AttemptOutcomes(cancelled) ==
    IF cancelled THEN {"ok", "fail", "cancelled", "cancelledInBackoff"} ELSE {"ok", "fail"}

\* A loop that gives up one attempt early.
RetryLoopRunsOneShort(attempts, maxRetries) == attempts < maxRetries

\* for attempts <= maxRetries
RetryLoopRuns(attempts, maxRetries) == attempts <= maxRetries

RECURSIVE RetryLoop(_, _, _, _, _)
\* The loop of executeWithRetry after `attempts` attempts, outcome[a] being how
\* attempt a ends, and the return after it.
RetryLoop(config, maxRetries, attempts, outcome, events) ==
    IF ~RetryLoopRuns(attempts, maxRetries)
    THEN [Config |-> config, Error |-> Failed, Attempts |-> attempts,
          Events |-> Append(events, "EventFailed")]
    ELSE IF outcome[attempts + 1] = "ok"
    THEN [Config |-> config, Error |-> NoError, Attempts |-> attempts + 1,
          Events |-> Append(events, "EventCompleted")]
    ELSE IF outcome[attempts + 1] = "cancelled"
    THEN [Config |-> config, Error |-> Cancelled, Attempts |-> attempts + 1,
          Events |-> Append(events, "EventCancelled")]
    ELSE IF attempts + 1 <= maxRetries
    THEN IF outcome[attempts + 1] = "cancelledInBackoff"
         THEN [Config |-> config, Error |-> Cancelled, Attempts |-> attempts + 1,
               Events |-> events \o <<"EventRetrying", "EventCancelled">>]
         ELSE RetryLoop(config, maxRetries, attempts + 1, outcome,
                        Append(events, "EventRetrying"))
    ELSE RetryLoop(config, maxRetries, attempts + 1, outcome, events)

\* executeWithRetry: the results it can return for a config. An attempt
\* succeeds or fails as the benchmark command does; the error of a failed
\* attempt is replaced by ctx.Err() if the context is cancelled by then.
executeWithRetry(config, maxRetries, cancelled) ==
    {RetryLoop(config, maxRetries, 0, outcome, <<"EventStarted">>) :
        outcome \in [1..(maxRetries + 1) -> AttemptOutcomes(cancelled)]}

\* ExecuteBatch up to the start of its goroutines: the channels are made, the
\* workers started. A config is known by its index in configs.
InitExecutor ==
    /\ component = "executor"
    /\ \E n \in 0..MaxConfigs, parallel \in ParallelValues, retry \in 0..MaxRetry,
          failFast \in BOOLEAN :
        /\ batch = [n |-> n, Parallel |-> parallel, Retry |-> retry, FailFast |-> failFast]
        /\ workers = [w \in 1..NumWorkers(parallel) |->
                         [pc |-> "recv", config |-> NoConfig, result |-> NoExecution]]
    /\ jobs = MakeChan
    /\ resultsCh = MakeChan
    /\ ctx = [cancelled |-> FALSE, batchCancelled |-> FALSE]
    /\ sender = [pc |-> "send", i |-> 1]
    /\ waiter = "wait"
    /\ collector = [allResults |-> <<>>, firstError |-> NoError]
    /\ batchRet = NoReturn
    /\ lru = NewLRUCache(0)
    /\ InitLRUVars
    /\ qc = NewQueryCache(0)
    /\ InitQCVars
    /\ InitCmpVars
    /\ SingleCaller
    /\ NoAnalyzer

notExecutor == <<component, lruVars, qcVars, cmpVars, concVars, anVars>>

\* The sender: case jobs <- config.
SenderSend ==
    /\ component = "executor"
    /\ sender.pc = "send"
    /\ sender.i <= batch.n
    /\ Len(jobs.buf) < batch.n
    /\ jobs' = [jobs EXCEPT !.buf = Append(@, sender.i)]
    /\ sender' = [sender EXCEPT !.i = @ + 1]
    /\ UNCHANGED <<batch, resultsCh, ctx, workers, waiter, collector, batchRet, notExecutor>>

\* The sender: case <-batchCtx.Done(), return (jobs stays open).
SenderCancelled ==
    /\ component = "executor"
    /\ sender.pc = "send"
    /\ sender.i <= batch.n
    /\ ctx.batchCancelled
    /\ sender' = [sender EXCEPT !.pc = "returned"]
    /\ UNCHANGED <<batch, jobs, resultsCh, ctx, workers, waiter, collector, batchRet, notExecutor>>

\* The sender: close(jobs) after the last config.
SenderClose ==
    /\ component = "executor"
    /\ sender.pc = "send"
    /\ sender.i > batch.n
    /\ jobs' = [jobs EXCEPT !.closed = TRUE]
    /\ sender' = [sender EXCEPT !.pc = "done"]
    /\ UNCHANGED <<batch, resultsCh, ctx, workers, waiter, collector, batchRet, notExecutor>>

\* worker: for config := range jobs, a config received.
WorkerRecv(w) ==
    /\ component = "executor"
    /\ workers[w].pc = "recv"
    /\ jobs.buf # <<>>
    /\ workers' = [workers EXCEPT ![w] = [@ EXCEPT !.pc = "select", !.config = Head(jobs.buf)]]
    /\ jobs' = [jobs EXCEPT !.buf = Tail(@)]
    /\ UNCHANGED <<batch, resultsCh, ctx, sender, waiter, collector, batchRet, notExecutor>>

\* worker: range jobs ends on the closed and drained channel; wg.Done().
WorkerExit(w) ==
    /\ component = "executor"
    /\ workers[w].pc = "recv"
    /\ jobs.buf = <<>>
    /\ jobs.closed
    /\ workers' = [workers EXCEPT ![w] = [@ EXCEPT !.pc = "done"]]
    /\ UNCHANGED <<batch, jobs, resultsCh, ctx, sender, waiter, collector, batchRet, notExecutor>>

\* worker: select on ctx.Done() with a default.
WorkerSelect(w) ==
    /\ component = "executor"
    /\ workers[w].pc = "select"
    /\ workers' = [workers EXCEPT ![w] =
                     IF ctx.batchCancelled
                     THEN [@ EXCEPT !.pc = "send_cancelled",
                                    !.result = [Config |-> workers[w].config, Error |-> Cancelled,
                                                Attempts |-> 0,
                                                Events |-> <<"EventCancelled">>]]
                     ELSE [@ EXCEPT !.pc = "execute"]]
    /\ UNCHANGED <<batch, jobs, resultsCh, ctx, sender, waiter, collector, batchRet, notExecutor>>

\* worker: result := e.executeWithRetry(ctx, config, execConfig.Retry, registry)
WorkerExecute(w) ==
    /\ component = "executor"
    /\ workers[w].pc = "execute"
    /\ \E r \in executeWithRetry(workers[w].config, batch.Retry, ctx.batchCancelled) :
          workers' = [workers EXCEPT ![w] = [@ EXCEPT !.pc = "send", !.result = r]]
    /\ UNCHANGED <<batch, jobs, resultsCh, ctx, sender, waiter, collector, batchRet, notExecutor>>

\* worker: results <- result; after a cancelled result the worker returns.
WorkerSend(w) ==
    /\ component = "executor"
    /\ workers[w].pc \in {"send", "send_cancelled"}
    /\ Len(resultsCh.buf) < batch.n
    /\ resultsCh' = [resultsCh EXCEPT !.buf = Append(@, workers[w].result)]
    /\ workers' = [workers EXCEPT ![w] =
                     [pc |-> IF @.pc = "send" THEN "recv" ELSE "done",
                      config |-> NoConfig, result |-> NoExecution]]
    /\ UNCHANGED <<batch, jobs, ctx, sender, waiter, collector, batchRet, notExecutor>>

\* wg.Wait(); close(results); close(errors)
WaiterClose ==
    /\ component = "executor"
    /\ waiter = "wait"
    /\ \A w \in DOMAIN workers : workers[w].pc = "done"
    /\ resultsCh' = [resultsCh EXCEPT !.closed = TRUE]
    /\ waiter' = "done"
    /\ UNCHANGED <<batch, jobs, ctx, workers, sender, collector, batchRet, notExecutor>>

\* for result := range results: one result, with the fail-fast cancel().
CollectResult ==
    /\ component = "executor"
    /\ ~batchRet.returned
    /\ resultsCh.buf # <<>>
    /\ LET result == Head(resultsCh.buf)
           failFast == batch.FailFast /\ result.Error # NoError
       IN /\ collector' = [allResults |-> Append(collector.allResults, result),
                           firstError |-> IF failFast /\ collector.firstError = NoError
                                          THEN result.Error ELSE collector.firstError]
          /\ ctx' = IF failFast THEN [ctx EXCEPT !.batchCancelled = TRUE] ELSE ctx
    /\ resultsCh' = [resultsCh EXCEPT !.buf = Tail(@)]
    /\ UNCHANGED <<batch, jobs, workers, sender, waiter, batchRet, notExecutor>>

\* The loop ends on the closed and drained results; the returns of ExecuteBatch
\* and the deferred cancel().
CollectReturn ==
    /\ component = "executor"
    /\ ~batchRet.returned
    /\ resultsCh.buf = <<>>
    /\ resultsCh.closed
    /\ batchRet' = [returned |-> TRUE,
                    results |-> collector.allResults,
                    err |-> IF ctx.cancelled THEN Cancelled
                            ELSE IF batch.FailFast /\ collector.firstError # NoError
                                 THEN collector.firstError
                            ELSE NoError]
    /\ ctx' = [ctx EXCEPT !.batchCancelled = TRUE]
    /\ UNCHANGED <<batch, jobs, resultsCh, workers, sender, waiter, collector, notExecutor>>

\* The caller cancels ctx while ExecuteBatch runs; batchCtx is derived from it.
CancelContext ==
    /\ component = "executor"
    /\ ~batchRet.returned
    /\ ~ctx.cancelled
    /\ ctx' = [cancelled |-> TRUE, batchCancelled |-> TRUE]
    /\ UNCHANGED <<batch, jobs, resultsCh, workers, sender, waiter, collector, batchRet, notExecutor>>

ExecutorNext ==
    \/ SenderSend
    \/ SenderCancelled
    \/ SenderClose
    \/ \E w \in DOMAIN workers : WorkerRecv(w)
    \/ \E w \in DOMAIN workers : WorkerExit(w)
    \/ \E w \in DOMAIN workers : WorkerSelect(w)
    \/ \E w \in DOMAIN workers : WorkerExecute(w)
    \/ \E w \in DOMAIN workers : WorkerSend(w)
    \/ WaiterClose
    \/ CollectResult
    \/ CollectReturn
    \/ CancelContext

\* ------------------------------------------------------------ concurrent callers of one CachedComparator
\* Inputs the goroutines pass to the shared CachedComparator: three pairs of
\* suites with three cache keys, the last with nothing to compare.
SharedInputs ==
    {<<Suite(<<[Name |-> "sort", Language |-> "go", Time |-> 100, StdDev |-> 0]>>),
       Suite(<<[Name |-> "sort", Language |-> "go", Time |-> 200, StdDev |-> 0]>>)>>,
     <<Suite(<<[Name |-> "sort", Language |-> "go", Time |-> 200, StdDev |-> 0]>>),
       Suite(<<[Name |-> "sort", Language |-> "go", Time |-> 100, StdDev |-> 0]>>)>>,
     <<NilSuite,
       Suite(<<[Name |-> "sort", Language |-> "go", Time |-> 100, StdDev |-> 0]>>)>>}

\* A goroutine is not inside Compare.
NoCompare == [name |-> "none"]
\* A goroutine has not returned from a Compare yet.
NoCompareRet == [done |-> FALSE]

\* Compare, lines 44-49: the key, cc.cache.Get(key) and the return on a hit.
\* Get holds the cache's lock from start to end.
CCLookup(p, b, c) ==
    /\ pc[p] = "idle"
    /\ LET key == cacheKey(b, c)
           g == LRUGet(lru, key)
       IN /\ lru' = g.cache
          /\ IF g.found
             THEN /\ ret' = [ret EXCEPT ![p] = [done |-> TRUE, hit |-> TRUE, baseline |-> b,
                                                current |-> c, result |-> g.result]]
                  /\ UNCHANGED <<pc, op>>
             ELSE /\ pc' = [pc EXCEPT ![p] = "miss"]
                  /\ op' = [op EXCEPT ![p] = [name |-> "Compare", baseline |-> b,
                                              current |-> c, key |-> key]]
                  /\ ret' = [ret EXCEPT ![p] = NoCompareRet]
    /\ UNCHANGED <<mu, completed>>

\* Compare, lines 52-57: the comparison, cc.cache.Set(key, result) and the
\* return. Set holds the cache's lock from start to end.
CCComputeAndSet(p) ==
    /\ pc[p] = "miss"
    /\ LET result == Compare(bc, op[p].baseline, op[p].current)
       IN /\ lru' = LRUSet(lru, op[p].key, result)
          /\ ret' = [ret EXCEPT ![p] = [done |-> TRUE, hit |-> FALSE,
                                        baseline |-> op[p].baseline,
                                        current |-> op[p].current, result |-> result]]
    /\ pc' = [pc EXCEPT ![p] = "idle"]
    /\ op' = [op EXCEPT ![p] = NoCompare]
    /\ UNCHANGED <<mu, completed>>

\* ClearCache
CCClearCache(p) ==
    /\ pc[p] = "idle"
    /\ lru' = LRUClear(lru)
    /\ UNCHANGED <<mu, pc, op, ret, completed>>

SharedStep(p) ==
    \/ \E in \in SharedInputs : CCLookup(p, in[1], in[2])
    \/ CCComputeAndSet(p)
    \/ CCClearCache(p)

SharedNext ==
    /\ component = "shared"
    /\ \E p \in Procs : SharedStep(p)
    /\ UNCHANGED <<component, lruLast, hist, age, written, qcVars, cmpVars, restVars>>

InitShared ==
    /\ component = "shared"
    /\ \E cacheSize \in Capacities : lru = NewCachedComparator(cacheSize)
    /\ InitLRUVars
    /\ InitCmpVars
    /\ qc = NewQueryCache(0)
    /\ InitQCVars
    /\ mu = NewRWMutex
    /\ pc = [p \in Procs |-> "idle"]
    /\ op = [p \in Procs |-> NoCompare]
    /\ ret = [p \in Procs |-> NoCompareRet]
    /\ completed = {}
    /\ RestIdle

\* ------------------------------------------------------------ specifications
InitLRU ==
    /\ component = "lru"
    /\ \E m \in Capacities : lru = NewLRUCache(m)
    /\ InitLRUVars
    /\ qc = NewQueryCache(0)
    /\ InitQCVars
    /\ InitCmpVars
    /\ SingleCaller
    /\ RestIdle

InitQC ==
    /\ component = "qc"
    /\ \E m \in Capacities : qc = NewQueryCache(m)
    /\ InitQCVars
    /\ lru = NewLRUCache(0)
    /\ InitLRUVars
    /\ InitCmpVars
    /\ SingleCaller
    /\ RestIdle

SpecLRU == InitLRU /\ [][LRUNext]_vars
SpecQC == InitQC /\ [][QCNext]_vars

InitCaches == InitLRU \/ InitQC
CachesNext == LRUNext \/ QCNext
SpecCaches == InitCaches /\ [][CachesNext]_vars
SpecCompare == InitCompare /\ [][CompareNext]_vars
SpecCached == InitCached /\ [][CachedNext]_vars
SpecConc == InitConc /\ [][ConcNext]_vars
SpecShared == InitShared /\ [][SharedNext]_vars
SpecAnalyzer == InitAnalyzer /\ [][AnalyzerNext]_vars
SpecExecutor == InitExecutor /\ [][ExecutorNext]_vars

\* One step of worker w, wherever it stands.
WorkerStep(w) ==
    /\ w \in DOMAIN workers
    /\ \/ WorkerRecv(w)
       \/ WorkerExit(w)
       \/ WorkerSelect(w)
       \/ WorkerExecute(w)
       \/ WorkerSend(w)

\* The Go scheduler runs every goroutine that can take a step, and a benchmark
\* attempt ends; whether the caller ever cancels the context is up to the
\* caller. A sender that can both send and see batchCtx.Done() takes either.
ExecutorFairness ==
    /\ WF_vars(SenderSend \/ SenderCancelled \/ SenderClose)
    /\ \A w \in 1..NumWorkers(MaxParallel) : WF_vars(WorkerStep(w))
    /\ WF_vars(WaiterClose)
    /\ WF_vars(CollectResult \/ CollectReturn)
SpecExecutorFair == InitExecutor /\ [][ExecutorNext]_vars /\ ExecutorFairness

\* ------------------------------------------------------------ claims: caches

\* The step taken is the call Set(key, result) on the LRUCache.
IsLRUSetStep(key, result) ==
    /\ hist' = Append(hist, key)
    /\ lruLast' = [op |-> "Set", key |-> key, result |-> result, found |-> FALSE]

\* C2: from an empty capacity-only cache of capacity maxSize, after Set was
\* called with maxSize+1 pairwise distinct keys, Get of the first inserted key
\* misses, Get of each of the other maxSize keys hits, and Size() = maxSize.
C2_FirstKeyEvictedAfterOverflow ==
    (Len(hist) = lru.maxSize + 1 /\ NoDup(hist)) =>
        /\ ~LRUGet(lru, hist[1]).found
        /\ \A i \in 2..Len(hist) : LRUGet(lru, hist[i]).found
        /\ LRUSize(lru) = lru.maxSize

\* C2 for the capacities of at least one: the part of C2 that the code keeps.
C2_HoldsForPositiveCapacity ==
    lru.maxSize >= 1 => C2_FirstKeyEvictedAfterOverflow

\* C3: Set(k, v) of a key that is present leaves Size() unchanged, removes no
\* key, leaves the eviction order and the insertion order of all keys
\* unchanged, and changes nothing but the value stored under k.
C3_ResetKeepsSizeAndOrder ==
    [][\A k \in Keys, v \in Values :
        (IsLRUSetStep(k, v) /\ k \in DOMAIN lru.items) =>
            /\ LRUSize(lru') = LRUSize(lru)
            /\ DOMAIN lru'.items = DOMAIN lru.items
            /\ lru'.order = lru.order
            /\ age' = age
            /\ lru'.items[k].result = v
            /\ \A x \in DOMAIN lru.items \ {k} : lru'.items[x] = lru.items[x]]_vars

\* C3 witness: the last call set again the oldest key of a cache holding
\* several keys, and that key is still the oldest.
C3_Witness ==
    /\ lruLast.op = "Set"
    /\ Len(age) >= 2
    /\ age[1] = lruLast.key
    /\ lru.order[1] = lruLast.key
    /\ Cardinality({i \in 1..Len(hist) : hist[i] = lruLast.key}) >= 2

C5_SizeWithinCapacity ==
    /\ LRUSize(lru) <= LRUMaxSize(lru)
    /\ QCSize(qc) <= QCMaxSize(qc)

\* C9: a key stored with a positive time-to-live is returned by Get at every
\* time up to its expiry unless it was evicted or cleared, and Get misses at
\* every later time unless the key was set again.
C9_RetrievableUntilExpiry ==
    \A k \in Keys :
        (stored[k].set /\ stored[k].positive) =>
            /\ (~stored[k].dropped /\ now <= stored[k].deadline) =>
                   QCGet(qc, k, now) = [result |-> stored[k].data, found |-> TRUE]
            /\ (now > stored[k].deadline) => ~QCGet(qc, k, now).found

\* C9 witness: Get just missed on a key that is still in the cache, stored
\* with a positive time-to-live that ran out.
C9_Witness ==
    /\ qcLast.op = "Get"
    /\ ~qcLast.found
    /\ qcLast.key \in DOMAIN qc.items
    /\ stored[qcLast.key].positive
    /\ ~stored[qcLast.key].dropped
    /\ now > stored[qcLast.key].deadline

\* C10: an entry whose time-to-live has elapsed no longer occupies a cache
\* slot: every entry counted by Size() is unexpired.
C10_ExpiredEntriesRemoved ==
    \A k \in DOMAIN qc.items : now <= qc.items[k].expiresAt

\* C11: after Clear the cache is empty and every Get misses; from then on a
\* key is present only if a Set since the Clear stored it, and only keys set
\* since the Clear stand in the eviction order. For both caches.
C11_ClearDropsEverything ==
    /\ lruLast.op = "Clear" =>
          /\ LRUSize(lru) = 0
          /\ \A k \in Keys : ~LRUGet(lru, k).found
    /\ \A k \in Keys : LRUGet(lru, k).found => k \in Range(hist)
    /\ Range(lru.order) \subseteq Range(hist)
    /\ \A k \in Keys :
          (stored[k].dropped \/ ~stored[k].set) =>
              /\ ~QCGet(qc, k, now).found
              /\ k \notin DOMAIN qc.items
              /\ k \notin Range(qc.order)

\* C11 witness: Clear has just emptied a cache that held several keys.
C11_Witness ==
    /\ lruLast.op = "Clear"
    /\ lruLast.dropped >= 2
    /\ LRUSize(lru) = 0

\* C11 witness, later: after the Clear the cache was filled again and a new
\* key evicted a key set since the Clear.
C11_EvictionAfterClear ==
    /\ lruLast.op = "Set"
    /\ Len(hist) > LRUSize(lru)
    /\ NoDup(hist)
    /\ LRUSize(lru) = lru.maxSize

\* ------------------------------------------------------------ claims: comparator

\* The results of `c` for which `b` holds a result of the same name and language.
MatchedInBoth(b, c) ==
    SelectSeq(c.Results,
        LAMBDA r : \E i \in 1..Len(b.Results) :
            b.Results[i].Name = r.Name /\ b.Results[i].Language = r.Language)

\* C7: the benchmarks of Compare(A, B) are exactly the results of B for which
\* A holds a result of the same name and the same language, each paired with
\* such a result of A.
C7_ExactlyTheMatchedBenchmarks ==
    calls > 0 =>
        /\ [i \in 1..Len(returned.Benchmarks) |-> returned.Benchmarks[i].Current]
               = MatchedInBoth(baseline, current)
        /\ \A i \in 1..Len(returned.Benchmarks) :
            /\ returned.Benchmarks[i].Baseline.Name = returned.Benchmarks[i].Current.Name
            /\ returned.Benchmarks[i].Baseline.Language = returned.Benchmarks[i].Current.Language

\* C8: isRegression implies current.time > baseline.time * regressionThreshold,
\* and for baseline.time > 0 the converse holds; a change exactly at the
\* threshold is no regression.
C8_RegressionIffAboveThreshold ==
    \A i \in 1..Len(returned.Benchmarks) :
        LET cmp == returned.Benchmarks[i]
            above == cmp.Current.Time * 100 > cmp.Baseline.Time * cmp.RegressionThreshold
        IN /\ cmp.IsRegression => above
           /\ (cmp.Baseline.Time > 0 /\ above) => cmp.IsRegression

\* C8 for comparisons of non-negative times: the part of C8 that the code keeps,
\* with the boundary (exactly at the threshold: no regression).
C8_HoldsForNonNegativeTimes ==
    \A i \in 1..Len(returned.Benchmarks) :
        LET cmp == returned.Benchmarks[i]
            above == cmp.Current.Time * 100 > cmp.Baseline.Time * cmp.RegressionThreshold
        IN (cmp.Baseline.Time >= 0 /\ cmp.Current.Time >= 0)
              => /\ cmp.IsRegression => above
                 /\ (cmp.Baseline.Time > 0 /\ above) => cmp.IsRegression
                 /\ cmp.Current.Time * 100 = cmp.Baseline.Time * cmp.RegressionThreshold
                        => ~cmp.IsRegression

\* float64 ==: NaN equals nothing, itself included.
FloatEq(x, y) == ~x.nan /\ ~y.nan /\ x = y

\* Two BenchmarkComparison values are equal field by field.
ComparisonValueEqual(a, b) ==
    /\ FloatEq(a.EffectSize, b.EffectSize)
    /\ [a EXCEPT !.EffectSize = FloatZero] = [b EXCEPT !.EffectSize = FloatZero]

\* The same, leaving EffectSize out.
ComparisonEqualApartFromEffectSize(a, b) ==
    [a EXCEPT !.EffectSize = FloatZero] = [b EXCEPT !.EffectSize = FloatZero]

\* Two ComparisonResult values are equal field by field.
ValueEqual(r1, r2) ==
    /\ Len(r1.Benchmarks) = Len(r2.Benchmarks)
    /\ \A i \in 1..Len(r1.Benchmarks) : ComparisonValueEqual(r1.Benchmarks[i], r2.Benchmarks[i])
    /\ [r1 EXCEPT !.Benchmarks = <<>>] = [r2 EXCEPT !.Benchmarks = <<>>]

\* The step is a CachedComparator.Compare call with the inputs of the call
\* before it, and no ClearCache in between.
IsRepeatedCompare ==
    /\ calls > 0
    /\ calls' = calls + 1
    /\ baseline' = baseline
    /\ current' = current
    /\ lruLast.op # "Clear"

\* C12: a second Compare call with value-equal inputs returns a value-equal
\* result, computed afresh or taken from the cache, and on the
\* CachedComparator it is a hit that leaves the cache size as it was.
C12_RepeatedCompareIsEqualAndAHit ==
    [][IsRepeatedCompare =>
        /\ ValueEqual(returned', returned)
        /\ ValueEqual(Compare(bc, baseline', current'), Compare(bc, baseline, current))
        /\ lruLast'.op = "Get" /\ lruLast'.found
        /\ LRUSize(lru') = LRUSize(lru)]_vars

\* C12 with EffectSize left out of the comparison: the part of C12 that the
\* code keeps.
C12_HoldsApartFromEffectSize ==
    [][IsRepeatedCompare =>
        /\ Len(returned'.Benchmarks) = Len(returned.Benchmarks)
        /\ \A i \in 1..Len(returned.Benchmarks) :
              ComparisonEqualApartFromEffectSize(returned'.Benchmarks[i], returned.Benchmarks[i])
        /\ [returned' EXCEPT !.Benchmarks = <<>>] = [returned EXCEPT !.Benchmarks = <<>>]
        /\ lruLast'.op = "Get" /\ lruLast'.found
        /\ LRUSize(lru') = LRUSize(lru)]_vars

\* C7 for baselines in which no name occurs in two languages: the part of C7
\* that the code keeps.
C7_HoldsForSingleLanguageNames ==
    (\A i, j \in 1..Len(baseline.Results) :
        baseline.Results[i].Name = baseline.Results[j].Name
            => baseline.Results[i].Language = baseline.Results[j].Language)
    => C7_ExactlyTheMatchedBenchmarks

\* C1: every CachedComparator.Compare call returns what the wrapped
\* comparator's Compare returns for the same two suites.
C1_CachedEqualsUncached ==
    calls > 0 => returned = Compare(bc, baseline, current)

\* ------------------------------------------------------------ claims about concurrent callers
ReadPositions == {"get_read", "get_runlock", "size_read", "size_runlock"}
WritePositions == {"set_check", "set_update", "evict_delete", "evict_slice", "set_insert",
                   "set_append", "set_unlock", "clear_items", "clear_order", "clear_unlock"}
Reading(p) == pc[p] \in ReadPositions
Writing(p) == pc[p] \in WritePositions
ConcCache == IF component = "concurrent_qc" THEN qc ELSE lru
ItemsAgreeWithOrder ==
    DOMAIN ConcCache.items = Range(ConcCache.order) /\ NoDup(ConcCache.order)
Concurrent == component \in {"concurrent", "concurrent_qc"}

\* C6: the caches may be called from several goroutines at once: a goroutine
\* that changes the cache is alone in it for the whole change, readers share
\* it only with readers, so a reader always sees items and order in agreement,
\* and a Get returns either a miss or a value that a completed Set stored
\* under that key.
C6_WritersExcludeReadersGetReturnsStored ==
    Concurrent =>
        /\ \A p \in Procs : Writing(p) => \A q \in Procs \ {p} : pc[q] = "idle"
        /\ (\E p \in Procs : Reading(p)) => ItemsAgreeWithOrder
        /\ \A p \in Procs :
              (pc[p] = "get_runlock" /\ ret[p].found)
                  => <<op[p].key, ret[p].result>> \in completed
        /\ \A p \in Procs :
              pc[p] = "size_runlock" => ret[p].size = Cardinality(DOMAIN ConcCache.items)

\* Two goroutines read at once, one of them has a hit that a completed Set
\* stored, after more Sets than the cache has room for.
C6_Witness ==
    /\ Concurrent
    /\ \E p \in Procs, q \in Procs :
          /\ p # q
          /\ pc[p] = "get_runlock" /\ ret[p].found
          /\ Reading(q)
    /\ Cardinality(completed) > ConcCache.maxSize
    /\ ConcCache.maxSize > 0

\* A goroutine is in the middle of a change: items and order disagree.
C6_TornStateExists ==
    /\ Concurrent
    /\ \E p \in Procs : Writing(p)
    /\ ~ItemsAgreeWithOrder

\* ------------------------------------------------------------ claims: result lists
\* C13: no benchmark name stands in both the Regressions and the Improvements
\* list of a ComparisonResult.
C13_RegressionsAndImprovementsDisjoint ==
    calls > 0 => Range(returned.Regressions) \cap Range(returned.Improvements) = {}

\* C13 for current suites in which every name occurs once: the part of C13
\* that the code keeps.
C13_HoldsForDistinctCurrentNames ==
    (\A i, j \in 1..Len(current.Results) :
        current.Results[i].Name = current.Results[j].Name => i = j)
    => C13_RegressionsAndImprovementsDisjoint

\* A suite is nil or empty, or the two suites share no benchmark name.
Degenerate(b, c) ==
    \/ b.isNil \/ c.isNil
    \/ Len(b.Results) = 0 \/ Len(c.Results) = 0
    \/ {b.Results[i].Name : i \in 1..Len(b.Results)}
           \cap {c.Results[i].Name : i \in 1..Len(c.Results)} = {}

ZeroComparisons(r) ==
    /\ r.Benchmarks = <<>>
    /\ r.Regressions = <<>>
    /\ r.Improvements = <<>>
    /\ r.Summary.TotalComparisons = 0

\* C14: on a nil or empty suite, or suites without a common name, Compare and
\* CachedComparator.Compare return a result with zero comparisons, empty
\* Regressions and Improvements and Summary.TotalComparisons = 0.
C14_DegenerateInputGivesZeroComparisons ==
    (calls > 0 /\ Degenerate(baseline, current)) => ZeroComparisons(returned)

\* C14 for the calls that found nothing in the cache and computed the result:
\* the part of C14 that the code keeps.
C14_HoldsWhenComputed ==
    (lruLast.op = "Set") => C14_DegenerateInputGivesZeroComparisons

\* ------------------------------------------------------------ claims: trend analyzer
Forecasts == IF analysis.op = "ForecastPerformance" THEN analysis.forecasts ELSE <<>>

\* The records of the forecast's benchmark, as ForecastPerformance groups them.
GroupOf(f) ==
    SelectSeq(SortByCreatedAt(series),
              LAMBDA c : c.BenchmarkName = f.BenchmarkName /\ c.Language = f.Language)

\* C15: every forecast has lowerBound <= predictedTime <= upperBound.
C15_PredictionWithinBounds ==
    \A i \in 1..Len(Forecasts) :
        LET f == Forecasts[i]
            predicted == Surd(f.PredictedTime, 0, f.UpperBound.sq)
        IN /\ SurdLeq(f.LowerBound, predicted)
           /\ SurdLeq(predicted, f.UpperBound)

\* C15 for the forecasts whose predicted time is not negative: the part of C15
\* that the code keeps.
C15_HoldsForNonNegativePredictions ==
    \A i \in 1..Len(Forecasts) :
        LET f == Forecasts[i]
            predicted == Surd(f.PredictedTime, 0, f.UpperBound.sq)
        IN RatLeq(RatZero, f.PredictedTime)
              => /\ SurdLeq(f.LowerBound, predicted)
                 /\ SurdLeq(predicted, f.UpperBound)

\* C16: every forecast has lowerBound >= 0, lowerBound = max(0, predictedTime -
\* margin) and upperBound = predictedTime + margin, for the margin
\* 1.96 * stdErr * Sqrt(1 + 1/n) of the benchmark's records.
C16_LowerBoundFlooredAtZero ==
    \A i \in 1..Len(Forecasts) :
        LET f == Forecasts[i]
            marginSq == MarginSq(GroupOf(f))
            below == Surd(f.PredictedTime, -1, marginSq)
        IN /\ SurdNonNeg(f.LowerBound)
           /\ f.LowerBound = IF SurdNonNeg(below) THEN below ELSE Surd(RatZero, 0, marginSq)
           /\ f.UpperBound = Surd(f.PredictedTime, 1, marginSq)

\* C16 witness: a forecast whose predictedTime - margin is negative and whose
\* lower bound is 0, next to one whose lower bound is positive.
C16_Witness ==
    /\ \E i \in 1..Len(Forecasts) :
          /\ ~SurdNonNeg(Surd(Forecasts[i].PredictedTime, -1, Forecasts[i].UpperBound.sq))
          /\ Forecasts[i].LowerBound.rat = RatZero
          /\ Forecasts[i].LowerBound.k = 0
    /\ \E i \in 1..Len(Forecasts) :
          /\ Forecasts[i].LowerBound.k = -1
          /\ Forecasts[i].UpperBound.sq.num > 0

AllSameTimestamp(history) ==
    \A i, j \in 1..Len(history) : history[i].CreatedAt = history[j].CreatedAt

\* C17: CalculateTrend returns an error and no TrendResult exactly when the
\* series is shorter than minPoints, or empty, or all its records share one
\* timestamp; otherwise a TrendResult with dataPoints = len(series).
C17_TrendErrorExactlyWhenUndefined ==
    analysis.op = "CalculateTrend" =>
        LET fails == \/ Len(series) < analysis.minDataPoints
                     \/ Len(series) = 0
                     \/ AllSameTimestamp(series)
        IN /\ (analysis.err # "none") <=> fails
           /\ (analysis.err # "none") => analysis.trend = NilValue
           /\ (analysis.err = "none") => analysis.trend.DataPoints = Len(series)

\* C17 for histories stamped in whole days: the part of C17 that the code keeps.
C17_HoldsForWholeDays ==
    perDay = 1 => C17_TrendErrorExactlyWhenUndefined

\* C18: DetectAnomalies returns the empty list on fewer than 2 points and on
\* equal values; ForecastPerformance returns the empty list on fewer than 2
\* points and on periods <= 0.
C18_DegenerateSeriesGiveEmptyLists ==
    /\ analysis.op = "DetectAnomalies" =>
          ((Len(series) < 2
            \/ \A i, j \in 1..Len(series) : series[i].CurrentTimeNs = series[j].CurrentTimeNs)
           => analysis.anomalies = <<>>)
    /\ analysis.op = "ForecastPerformance" =>
          ((Len(series) < 2 \/ analysis.periods <= 0) => analysis.forecasts = <<>>)

\* C18 witness: DetectAnomalies was called on a constant history of several points.
C18_Witness ==
    /\ analysis.op = "DetectAnomalies"
    /\ Len(series) >= 2
    /\ \A i, j \in 1..Len(series) : series[i].CurrentTimeNs = series[j].CurrentTimeNs
    /\ analysis.anomalies = <<>>

\* There are anomalies to report: the detection is not empty throughout.
C18_AnomaliesExist ==
    /\ analysis.op = "DetectAnomalies"
    /\ analysis.anomalies # <<>>

\* ------------------------------------------------------------ claims: comparison lists
NamesOf(cmps) == [i \in 1..Len(cmps) |-> cmps[i].Name]

C19_ImprovementListed ==
    /\ Len(returned.Benchmarks) = 1
    /\ returned.Benchmarks[1].Baseline.Time = 100
    /\ returned.Benchmarks[1].Current.Time = 95
    /\ returned.Benchmarks[1].TimeDelta = RatOfInt(-5)
    /\ returned.Improvements = <<returned.Benchmarks[1].Name>>
    /\ returned.Regressions = <<>>

\* ------------------------------------------------------------ claims: executor
\* How many of the returned results are of config i.
ResultsOf(i) == Cardinality({j \in 1..Len(batchRet.results) : batchRet.results[j].Config = i})

\* C20: with the context not cancelled and FailFast false, ExecuteBatch returns
\* one result for every config, none twice and none of anything else, and a nil
\* error, whatever Parallel is and whether the benchmarks succeed or fail.
C20_OneResultPerConfig ==
    (batchRet.returned /\ ~ctx.cancelled /\ ~batch.FailFast) =>
        /\ batchRet.err = NoError
        /\ Len(batchRet.results) = batch.n
        /\ \A i \in 1..batch.n : ResultsOf(i) = 1

\* C20 witness: a batch of several configs with Parallel <= 0 has returned, one
\* benchmark having failed and one succeeded.
C20_Witness ==
    /\ batchRet.returned
    /\ ~ctx.cancelled
    /\ ~batch.FailFast
    /\ batch.Parallel <= 0
    /\ batch.n = MaxConfigs
    /\ \E j \in 1..Len(batchRet.results) : batchRet.results[j].Error = Failed
    /\ \E j \in 1..Len(batchRet.results) : batchRet.results[j].Error = NoError

\* A batch has returned whose workers, more than one, took the configs out of
\* order.
C20_ParallelOutOfOrder ==
    /\ batchRet.returned
    /\ ~ctx.cancelled
    /\ ~batch.FailFast
    /\ batch.Parallel > 1
    /\ Len(batchRet.results) = 2
    /\ batchRet.results[1].Config = 2

\* ------------------------------------------------------------ claims: retry
\* The results executeWithRetry has returned so far: held by a worker, in the
\* results channel, or collected.
FinishedResults ==
    {workers[w].result : w \in {v \in DOMAIN workers : workers[v].pc = "send"}}
        \cup {resultsCh.buf[j] : j \in 1..Len(resultsCh.buf)}
        \cup {collector.allResults[j] : j \in 1..Len(collector.allResults)}

Count(seq, x) == Cardinality({j \in 1..Len(seq) : seq[j] = x})

\* C21: with Retry = r >= 0 and the run not cut short by cancellation, a
\* benchmark whose every attempt fails has Attempts = r + 1 and a non-nil Error,
\* and its events are EventStarted, r times EventRetrying, then one EventFailed;
\* a benchmark that first succeeds on attempt k <= r + 1 has Attempts = k and a
\* nil Error, its events end with the one EventCompleted after k - 1 times
\* EventRetrying, and there is no EventFailed.
C21_AttemptsAndEvents ==
    \A res \in FinishedResults :
        /\ res.Error = Failed =>
              /\ res.Attempts = batch.Retry + 1
              /\ res.Events = <<"EventStarted">>
                                 \o [j \in 1..batch.Retry |-> "EventRetrying"]
                                 \o <<"EventFailed">>
        /\ res.Error = NoError =>
              /\ res.Attempts \in 1..(batch.Retry + 1)
              /\ res.Events = <<"EventStarted">>
                                 \o [j \in 1..(res.Attempts - 1) |-> "EventRetrying"]
                                 \o <<"EventCompleted">>
              /\ Count(res.Events, "EventCompleted") = 1
              /\ Count(res.Events, "EventFailed") = 0

\* C21 witness: a batch with Retry >= 1, never cancelled, has returned both a
\* benchmark that failed on every attempt and one that succeeded on its last
\* attempt.
C21_Witness ==
    /\ batchRet.returned
    /\ ~ctx.cancelled
    /\ ~batch.FailFast
    /\ batch.Retry >= 1
    /\ \E j \in 1..Len(batchRet.results) :
          /\ batchRet.results[j].Error = Failed
          /\ batchRet.results[j].Attempts = batch.Retry + 1
          /\ Count(batchRet.results[j].Events, "EventRetrying") = batch.Retry
    /\ \E j \in 1..Len(batchRet.results) :
          /\ batchRet.results[j].Error = NoError
          /\ batchRet.results[j].Attempts = batch.Retry + 1

\* ------------------------------------------------------------ claims: termination
\* C30: ExecuteBatch always returns, in every interleaving of the sender, the
\* workers and the collector and whether or not the batch is cancelled: all
\* workers exit, the results channel is closed and the call returns.
C30_ExecuteBatchReturns ==
    <>(/\ batchRet.returned
       /\ resultsCh.closed
       /\ \A w \in DOMAIN workers : workers[w].pc = "done")

\* Where it does not: the sender has returned on batchCtx.Done() without
\* closing jobs, and a worker waits on the empty, open jobs channel.
C30_WorkerStuckOnJobs ==
    /\ component = "executor"
    /\ sender.pc = "returned"
    /\ ~jobs.closed
    /\ jobs.buf = <<>>
    /\ \E w \in DOMAIN workers : workers[w].pc = "recv"
    /\ ~batchRet.returned

\* The same after fail-fast alone, the caller's context never cancelled.
C30_StuckAfterFailFast ==
    /\ C30_WorkerStuckOnJobs
    /\ ~ctx.cancelled
    /\ batch.FailFast

\* A worker stuck on jobs stays stuck, and ExecuteBatch does not return.
C30_StuckForever == [](C30_WorkerStuckOnJobs => []C30_WorkerStuckOnJobs)

\* What does hold: a batch that is never cancelled returns, and so does every
\* batch whose sender has closed jobs.
C30_ReturnsUnlessCancelled ==
    <>(batchRet.returned \/ ctx.batchCancelled)

C30_ReturnsOnceJobsClosed ==
    jobs.closed ~> batchRet.returned

\* ------------------------------------------------------------ claims: effect size
\* C24: every comparison's EffectSize is a finite number, and it is 0 for the
\* two one-element samples Compare hands to CohensDEffect.
C24_EffectSizeFiniteZero ==
    \A i \in 1..Len(returned.Benchmarks) :
        /\ ~returned.Benchmarks[i].EffectSize.nan
        /\ returned.Benchmarks[i].EffectSize = FloatZero

\* What the code does instead: every comparison's EffectSize is NaN.
C24_EffectSizeAlwaysNaN ==
    \A i \in 1..Len(returned.Benchmarks) : returned.Benchmarks[i].EffectSize = FloatNaN

\* ------------------------------------------------------------ claims: zero baseline
InSeq(x, seq) == \E j \in 1..Len(seq) : seq[j] = x

\* C28: a comparison whose baseline.time is 0 has timeDelta = 0, is flagged a
\* regression exactly when current.time > 0 and then listed in Regressions, and
\* its name is not in Improvements; a name none of whose comparisons is flagged
\* is not in Regressions.
C28_ZeroBaseline ==
    \A i \in 1..Len(returned.Benchmarks) :
        LET cmp == returned.Benchmarks[i]
        IN cmp.Baseline.Time = 0 =>
             /\ cmp.TimeDelta = RatZero
             /\ cmp.IsRegression <=> cmp.Current.Time > 0
             /\ cmp.IsRegression => InSeq(cmp.Name, returned.Regressions)
             /\ ~InSeq(cmp.Name, returned.Improvements)
             /\ (\A j \in 1..Len(returned.Benchmarks) :
                    returned.Benchmarks[j].Name = cmp.Name => ~returned.Benchmarks[j].IsRegression)
                  => ~InSeq(cmp.Name, returned.Regressions)

\* C28 witness: a result with a zero baseline and a positive current time,
\* flagged and listed, next to one with both times 0, neither flagged nor listed.
C28_Witness ==
    /\ \E i \in 1..Len(returned.Benchmarks) :
          /\ returned.Benchmarks[i].Baseline.Time = 0
          /\ returned.Benchmarks[i].Current.Time > 0
          /\ returned.Benchmarks[i].IsRegression
          /\ returned.Regressions = <<returned.Benchmarks[i].Name>>
    /\ \E i \in 1..Len(returned.Benchmarks) :
          /\ returned.Benchmarks[i].Baseline.Time = 0
          /\ returned.Benchmarks[i].Current.Time = 0
          /\ ~returned.Benchmarks[i].IsRegression
    /\ returned.Improvements = <<>>

\* A zero baseline against a negative current time: -Inf, no regression.
C28_NegativeCurrent ==
    \E i \in 1..Len(returned.Benchmarks) :
        /\ returned.Benchmarks[i].Baseline.Time = 0
        /\ returned.Benchmarks[i].Current.Time < 0
        /\ ~returned.Benchmarks[i].IsRegression

\* ------------------------------------------------------------ claims: summary and order
\* seq with the elements at i and j exchanged; every permutation is a chain of these.
Swap(seq, i, j) == [seq EXCEPT ![i] = seq[j], ![j] = seq[i]]

Swaps(seq) == {Swap(seq, i, j) : i, j \in 1..Len(seq)}

DistinctNames(results) ==
    \A i, j \in 1..Len(results) : i # j => results[i].Name # results[j].Name

SummaryWithinBounds(summary) ==
    summary.TotalComparisons > 0 =>
        /\ RatLeq(summary.MinDelta, summary.AverageDelta)
        /\ RatLeq(summary.AverageDelta, summary.MaxDelta)

\* C23: the summary of Compare is the same for the suites with their results
\* reordered, and MinDelta <= AverageDelta <= MaxDelta when there is a comparison.
C23_SummaryIndependentOfOrder ==
    calls = 1 =>
        /\ \A c \in Swaps(current.Results) :
              Compare(bc, baseline, Suite(c)).Summary = returned.Summary
        /\ \A b \in Swaps(baseline.Results) :
              Compare(bc, Suite(b), current).Summary = returned.Summary
        /\ SummaryWithinBounds(returned.Summary)

\* C23 for baselines in which no name occurs twice: the part of C23 that the
\* code keeps.
C23_HoldsForDistinctBaselineNames ==
    (calls = 1 /\ DistinctNames(baseline.Results)) =>
        /\ \A c \in Swaps(current.Results) :
              Compare(bc, baseline, Suite(c)).Summary = returned.Summary
        /\ \A b \in Swaps(baseline.Results) :
              Compare(bc, Suite(b), current).Summary = returned.Summary
        /\ SummaryWithinBounds(returned.Summary)

\* ------------------------------------------------------------ claims: eviction order
\* The cache the behaviour drives, before and after a step.
DrivenCache == IF component = "qc" THEN qc ELSE lru
DrivenCacheAfter == IF component = "qc" THEN qc' ELSE lru'

\* The order list holds exactly the keys of the item map, each once.
OrderListsItemsOnce ==
    /\ Range(DrivenCache.order) = DOMAIN DrivenCache.items
    /\ NoDup(DrivenCache.order)

\* A step keeps the relative order of the keys that stay and puts a key that
\* was absent at the back.
OrderIsInsertionOrder ==
    LET before == DOMAIN DrivenCache.items
        after == DOMAIN DrivenCacheAfter.items
        kept == SelectSeq(DrivenCache.order, LAMBDA x : x \in after)
    IN \/ after \subseteq before /\ DrivenCacheAfter.order = kept
       \/ \E k \in after \ before : DrivenCacheAfter.order = Append(kept, k)

\* A step that stores a new key in a cache at capacity removes one entry.
EvictionRemovesOne ==
    LET before == DOMAIN DrivenCache.items
        after == DOMAIN DrivenCacheAfter.items
    IN (after \ before # {} /\ Cardinality(before) >= DrivenCache.maxSize)
          => Cardinality(before \ after) = 1

\* C26: in every reachable state of LRUCache and QueryCache the eviction order
\* holds exactly the keys of the item map, each once, in the order of their
\* first insertion since they were last absent, and an eviction at capacity
\* removes exactly one stored entry.
C26_OrderMatchesItems ==
    /\ []OrderListsItemsOnce
    /\ [][OrderIsInsertionOrder /\ EvictionRemovesOne]_vars

\* C26 without its last part: the order list and the item map agree.
C26_OrderPartHolds ==
    /\ []OrderListsItemsOnce
    /\ [][OrderIsInsertionOrder]_vars

\* C26 for caches of capacity 1 and more: the part of C26 that the code keeps.
C26_HoldsForPositiveCapacity ==
    /\ []OrderListsItemsOnce
    /\ [][OrderIsInsertionOrder /\ (DrivenCache.maxSize >= 1 => EvictionRemovesOne)]_vars

\* ------------------------------------------------------------ claims: read your writes
\* C27: Get(k) returns the value of the most recent Set(k, v) if k was set since
\* the last Clear and not evicted since, and a miss otherwise; Get changes
\* neither the contents nor the size of the cache.
C27_ReadYourWrites ==
    /\ [](lruLast.op = "Get" =>
            /\ lruLast.found <=> written[lruLast.key] # NilValue
            /\ lruLast.result = written[lruLast.key])
    /\ [][lruLast'.op = "Get" => lru'.items = lru.items /\ LRUSize(lru') = LRUSize(lru)]_vars

\* C27 witness: a Get returned the second of two values stored under its key,
\* after another key had been evicted.
C27_Witness ==
    /\ component = "lru"
    /\ lruLast.op = "Get"
    /\ lruLast.found
    /\ lruLast.result = "r2"
    /\ Cardinality({i \in 1..Len(hist) : hist[i] = lruLast.key}) >= 2
    /\ \E k \in Range(hist) : k \notin DOMAIN lru.items

\* A Get missed a key that had been stored and was evicted since.
C27_MissAfterEviction ==
    /\ component = "lru"
    /\ lruLast.op = "Get"
    /\ ~lruLast.found
    /\ lruLast.key \in Range(hist)

\* ------------------------------------------------------------ claims: expiry and eviction
Expired(c, k, t) == k \in DOMAIN c.items /\ t > c.items[k].expiresAt

C22_RevivedInPlace ==
    /\ component = "qc"
    /\ qcLast.op = "Set"
    /\ qcLast.revived
    /\ qc.items[qcLast.key].expiresAt > now
    /\ Len(qc.order) >= 2
    /\ qc.order[1] = qcLast.key
    /\ QCGet(qc, qcLast.key, now).found


\* ------------------------------------------------------------ C25
\* C25: the trend analyzer's operations are functions of their arguments: a
\* second call of ForecastPerformance with the same series and periods returns
\* the list the first call returned, whatever order the loop over the map of
\* benchmark+language groups takes.
C25_ForecastIsFunctionOfArguments ==
    (component = "analyzer" /\ analysis.op = "ForecastPerformance")
        => \A keys \in KeyOrders({GroupKey(series[i]) : i \in 1..Len(series)}) :
              ForecastPerformance(series, analysis.periods, perDay, keys) = analysis.forecasts

\* The groups of a series that have a trend to forecast from.
ForecastingGroups ==
    {k \in {GroupKey(series[i]) : i \in 1..Len(series)} :
        GroupForecasts(SelectSeq(SortByCreatedAt(series), LAMBDA c : GroupKey(c) = k),
                       1, perDay) # <<>>}

\* What does hold: with at most one group that yields forecasts, the list
\* does not depend on the order of the loop; and any two orders yield the same
\* forecasts up to their order in the list.
C25_HoldsForOneForecastingGroup ==
    (component = "analyzer" /\ analysis.op = "ForecastPerformance"
        /\ Cardinality(ForecastingGroups) <= 1)
        => \A keys \in KeyOrders({GroupKey(series[i]) : i \in 1..Len(series)}) :
              ForecastPerformance(series, analysis.periods, perDay, keys) = analysis.forecasts

C25_SameForecastsUpToOrder ==
    (component = "analyzer" /\ analysis.op = "ForecastPerformance")
        => \A keys \in KeyOrders({GroupKey(series[i]) : i \in 1..Len(series)}) :
              LET f == ForecastPerformance(series, analysis.periods, perDay, keys)
              IN /\ Len(f) = Len(analysis.forecasts)
                 /\ {f[i] : i \in 1..Len(f)}
                      = {analysis.forecasts[i] : i \in 1..Len(f)}

\* A call on a series with two forecasting groups.
C25_TwoGroupsForecast ==
    /\ component = "analyzer"
    /\ analysis.op = "ForecastPerformance"
    /\ analysis.periods > 0
    /\ Cardinality(ForecastingGroups) = 2

\* ------------------------------------------------------------ claims: shared CachedComparator
\* Two goroutines have both missed on the same inputs and will both compute.
C29_BothMiss ==
    /\ component = "shared"
    /\ \E p, q \in Procs :
          /\ p # q
          /\ pc[p] = "miss" /\ pc[q] = "miss"
          /\ op[p].key = op[q].key

\* The cache holds each key at most once and no more keys than its capacity.
SharedCacheInBounds ==
    /\ NoDup(lru.order)
    /\ Range(lru.order) = DOMAIN lru.items
    /\ LRUSize(lru) <= lru.maxSize

\* C29: on a shared CachedComparator, in every interleaving of Compare calls
\* (with ClearCache calls and inserts of other keys among them), the cache
\* holds at most one entry per key, Size() <= MaxSize() at every moment, and
\* any two callers that passed identical inputs have received value-equal
\* results.
C29_OneEntryBoundedSizeEqualResults ==
    component = "shared" =>
        /\ SharedCacheInBounds
        /\ \A p, q \in Procs :
              (p # q /\ ret[p].done /\ ret[q].done
                    /\ ret[p].baseline = ret[q].baseline /\ ret[p].current = ret[q].current)
                  => ValueEqual(ret[p].result, ret[q].result)

\* What does hold: the same with EffectSize, which is NaN in every comparison,
\* left out of the comparison of results.
C29_HoldsApartFromEffectSize ==
    component = "shared" =>
        /\ SharedCacheInBounds
        /\ \A p, q \in Procs :
              (p # q /\ ret[p].done /\ ret[q].done
                    /\ ret[p].baseline = ret[q].baseline /\ ret[p].current = ret[q].current)
                  => /\ Len(ret[p].result.Benchmarks) = Len(ret[q].result.Benchmarks)
                     /\ \A i \in 1..Len(ret[p].result.Benchmarks) :
                           ComparisonEqualApartFromEffectSize(ret[p].result.Benchmarks[i],
                                                              ret[q].result.Benchmarks[i])
                     /\ [ret[p].result EXCEPT !.Benchmarks = <<>>]
                          = [ret[q].result EXCEPT !.Benchmarks = <<>>]

\* Two callers with identical inputs have returned, both after a miss, while
\* the cache was at its capacity.
C29_BothRecomputed ==
    /\ component = "shared"
    /\ \E p, q \in Procs :
          /\ p # q
          /\ ret[p].done /\ ret[q].done
          /\ ~ret[p].hit /\ ~ret[q].hit
          /\ ret[p].baseline = ret[q].baseline /\ ret[p].current = ret[q].current
          /\ Len(ret[p].result.Benchmarks) > 0
    /\ LRUSize(lru) = lru.maxSize
====
